---- MODULE Spec2Model ----
(***************************************************************************)
(* Task manager (internal/mcp/transport.go, taskManager / taskWorker) and  *)
(* worktree manager (internal/mcp/worktree_manager.go) of auto-claude-code *)
(* as one state machine.  Every lock-protected section of the Go code is   *)
(* one atomic step; goroutine-local computation is folded into the step    *)
(* that precedes or follows it.                                            *)
(*                                                                         *)
(* Task status records are heap objects (Go: *TaskStatus).  The task table *)
(* maps an ID to a reference; a worker keeps the reference it looked up.   *)
(* Time stamps are kept as ages: the number of clock ticks since the       *)
(* time.Now() that was stored; a zero time.Time is NoTime.                  *)
(***************************************************************************)
EXTENDS Integers, Sequences, FiniteSets, TLC

(* ------------------------------ bounds ------------------------------- *)
\* number of SubmitTask calls explored (each allocates one status record)
MaxSubmits == 3
\* task IDs a caller may supply / the clock may generate: 1..MaxTaskId
MaxTaskId == 3
\* directories found in the storage directory at start-up: wt_1..wt_MaxOldDirs
MaxOldDirs == 2
\* number of worktree IDs CreateWorktree may generate
MaxNewWt == 2
\* largest configured worker count explored
MaxWorkers == 2
MaxLines == 3
MaxTransports == 3
MaxHandlerCalls == 2

(* ------------------------ program constants -------------------------- *)
\* retention window of terminal tasks (24h), in clock ticks
Retention == 1
\* idle TTL of worktrees (2h), in clock ticks
IdleTTL == 1

VARIABLES
    cfgWorkers,     \* cfg.MaxConcurrentTasks
    cfgQueueMax,    \* cfg.Queue.MaxSize
    cfgMaxWt,       \* cfg.MaxWorktrees
    nano,           \* last UnixNano reading used for a task ID
    tmStarted,      \* taskManager.Start has run
    tmDone,         \* tm.ctx is cancelled (Stop)
    callerKeeps,    \* SubmitTask's caller keeps the status it got (else it only encodes it at once)
    returned,       \* the *TaskStatus SubmitTask returned last with success, and its value then
    multiTransport,             \* MultiTransport: its channels, the calls it made on them, what it returned
    panicked,       \* the worker whose task execution raised a panic (0: none)
    http,           \* the HTTP request served last by the middleware chain, and the handler calls made
    reader,         \* a GetTaskStatus call in progress, and the record access made last
    stdio,          \* StdioTransport: its loop, the lines on its reader, the responses encoded
    rpc,            \* the JSON-RPC exchange processJSONRPCRequest handled last
    tmStopErr,      \* what taskManager.Stop returned ("none": it has not returned)
    objs,           \* heap of TaskStatus records, in allocation order
    tasks,          \* tm.tasks: ID -> reference into objs (0: no entry)
    taskQueue,      \* tm.taskQueue
    submitting,     \* SubmitTask calls between registering and enqueueing
    cancelling,     \* CancelTask calls in their worker-notification loop
    lastSubmit,     \* outcome of the SubmitTask call that returned last
    accepted,       \* IDs for which SubmitTask returned success (not yet reaped)
    pendCancelled,  \* IDs on which CancelTask succeeded while pending
    wpc,            \* worker: position in run / executeTask
    wreq,           \* worker: req
    wst,            \* worker: status (reference held by executeTask)
    currentTask,    \* worker.currentTask
    wctxDone,       \* worker.ctx is cancelled
    werr,           \* worker: err of the execution
    wwt,            \* worker: worktree.ID returned by CreateWorktree
    wmStarted,      \* worktreeManager.Start has run
    wmDone,         \* wm.ctx is cancelled (Stop)
    worktrees,      \* wm.worktrees: ID -> WorktreeInfo
    disk,           \* wt_* directories present under wm.baseDir
    wtClock         \* last UnixNano reading used for a worktree ID

vars == << cfgWorkers, cfgQueueMax, cfgMaxWt, callerKeeps, multiTransport, panicked, http, reader, stdio, returned, rpc, nano, tmStarted, tmDone, tmStopErr, objs,
           tasks, taskQueue, submitting, cancelling, lastSubmit,
           accepted, pendCancelled, wpc, wreq, wst, currentTask, wctxDone, werr,
           wwt, wmStarted, wmDone, worktrees, disk, wtClock >>

cfgVars == << cfgWorkers, cfgQueueMax, cfgMaxWt, callerKeeps >>
workerVars == << wpc, wreq, wst, currentTask, wctxDone, werr, wwt >>
wmVars == << wmStarted, wmDone, worktrees, disk, wtClock >>
ghostVars == << lastSubmit, accepted, pendCancelled >>

(* ------------------------------ domains ------------------------------ *)
TaskIds == 1..MaxTaskId
WorkerIds == 1..MaxWorkers
\* the workers taskManager.Start creates: tm.workerCount of them
WorkersOneMore == 1..(cfgWorkers + 1)
Workers == 1..cfgWorkers
WtIds == 1..(MaxOldDirs + MaxNewWt)

\* classes of req.ProjectPath: "winOk" an existing Windows path, "nonWin" a
\* non-empty path that is no Windows path, "bad" empty or a missing Windows path
PathKinds == {"winOk", "nonWin", "bad"}
TaskTypes == {"claude_code", "other"}

TerminalStatuses == {"completed", "failed", "cancelled", "timeout"}

NoReq == [ID |-> 0, Type |-> "none", Path |-> "none"]

\* time stamps: the zero time.Time, the value time.Now() returns, and a stamp
\* one tick later; ages past every cutoff of the program are not told apart
NoTime == [set |-> FALSE, age |-> 0]
TimeNow == [set |-> TRUE, age |-> 0]
OldestAge == (IF Retention > IdleTTL THEN Retention ELSE IdleTTL) + 1
Older(t) == IF t.set /\ t.age < OldestAge THEN [t EXCEPT !.age = t.age + 1] ELSE t
\* t.Before(time.Now().Add(-d))
BeforeCutoff(t, d) == t.set /\ t.age > d
NoWt == [Status |-> "none", LastUsed |-> NoTime, ProjectPath |-> "none"]

\* a request as SubmitTask's callers build it (handleTasks decodes it from the
\* body; handleExecuteClaudeCode fills Type = "claude_code" and no ID)
Requests == { [ID |-> i, Type |-> "claude_code", Path |-> p] : i \in {0} \cup TaskIds, p \in PathKinds }
            \cup { [ID |-> i, Type |-> "other", Path |-> "winOk"] : i \in {0} \cup TaskIds }

(* ------------------------------ helpers ------------------------------ *)
\* the record the task table holds for an ID
Present(id) == tasks[id] # 0
StatusOf(id) == IF tasks[id] = 0 THEN "none" ELSE objs[tasks[id]].Status

\* GetTaskStatus: a copy of the canonical record, or TaskNotFound
GetTaskStatus(id) ==
    IF tasks[id] = 0
    THEN [err |-> "TASK_NOT_FOUND", status |-> "none"]
    ELSE [err |-> "", status |-> objs[tasks[id]].Status]

\* the status record SubmitTask creates
NewStatus(id) ==
    [ID |-> id, Status |-> "pending", Progress |-> 0, EndTime |-> NoTime,
     WorktreeID |-> 0, Error |-> "", Result |-> 0]

\* Go's garbage collector: a record that neither the task table, nor a worker,
\* nor a SubmitTask call in progress, nor SubmitTask's caller, nor a
\* GetTaskStatus call in progress refers to is gone
Freed == [ID |-> 0, Status |-> "freed", Progress |-> 0, EndTime |-> NoTime,
          WorktreeID |-> 0, Error |-> "", Result |-> 0]
Collect(o, t, ws, sub, ret, rd) ==
    [k \in 1..Len(o) |->
        IF \/ \E id \in TaskIds : t[id] = k
           \/ \E w \in WorkerIds : ws[w] = k
           \/ \E c \in sub : c.obj = k
           \/ ret.ref = k
           \/ rd = k
        THEN o[k] ELSE Freed]

\* no status handed out yet
NoReturn == [ref |-> 0, snap |-> Freed]

\* an access to a task or worktree record, or to the table that holds it: what
\* is accessed, how, and the mode in which the table's RWMutex is held then
NoAccess == [target |-> "none", kind |-> "none", lock |-> "none"]
\* no GetTaskStatus call is followed and no access is recorded
NoReader == [pc |-> "off", ref |-> 0, split |-> 0, copy |-> Freed, access |-> NoAccess]
\* the fields of TaskStatus in the order of the struct, which a copy follows
FieldOrder == << "ID", "Status", "Progress", "Result", "Error", "EndTime", "WorktreeID" >>
\* dst with the fields from..to of FieldOrder taken from src
CopyFields(dst, src, from, to) ==
    [f \in DOMAIN dst |-> IF \E i \in from..to : FieldOrder[i] = f THEN src[f] ELSE dst[f]]

\* the channel send of SubmitTask's select can proceed
QueueHasRoomOffByOne(q) == Len(q) <= cfgQueueMax
QueueHasRoom(q) == Len(q) < cfgQueueMax

\* time.Time.Format(time.RFC3339) followed by time.Parse drops the part of a
\* second, which is less than a clock tick: the stamp keeps its age
RFC3339(t) == [set |-> TRUE, age |-> t.age]

(* ------------------------- protocol handler -------------------------- *)
MCPVersion == "2024-11-05"
\* protocol versions a client may request: the supported one, another one, none
Versions == {"2024-11-05", "2025-03-26", ""}
ServerName == "auto-claude-code-mcp"
ToolNames == {"execute_claude_code", "get_task_status", "cancel_task", "list_tasks"}
\* tool names a client may call: the registered ones, another one, none
CallNames == ToolNames \cup {"delete_task", ""}

\* protocolHandler.ListTools: the names of the tools of its literal, in order
ListToolsThree == << "execute_claude_code", "get_task_status", "cancel_task" >>
ListTools == << "execute_claude_code", "get_task_status", "cancel_task", "list_tasks" >>

\* protocolHandler.Initialize
InitializeAnyVersion(v) ==
    [err |-> "", ProtocolVersion |-> MCPVersion, ServerInfo |-> ServerName]
Initialize(v) ==
    IF v # MCPVersion
    THEN [err |-> "MCP_PROTOCOL_ERROR", ProtocolVersion |-> "", ServerInfo |-> ""]
    ELSE [err |-> "", ProtocolVersion |-> MCPVersion, ServerInfo |-> ServerName]

\* protocolHandler.CallTool's result.  argMissing: the tool's required argument
\* is absent, empty or no string; tmErr: the error the Task Manager returned
CallToolKeepsFlagClear(name, argMissing, tmErr) ==
    IF name \notin ToolNames
    THEN [IsError |-> TRUE, Text |-> "unknown tool"]
    ELSE IF name # "list_tasks" /\ argMissing
    THEN [IsError |-> TRUE, Text |-> "missing required argument"]
    ELSE IF tmErr # ""
    THEN [IsError |-> FALSE, Text |-> tmErr]
    ELSE [IsError |-> FALSE, Text |-> "ok"]
CallTool(name, argMissing, tmErr) ==
    IF name \notin ToolNames
    THEN [IsError |-> TRUE, Text |-> "unknown tool"]
    ELSE IF name # "list_tasks" /\ argMissing
    THEN [IsError |-> TRUE, Text |-> "missing required argument"]
    ELSE IF tmErr # ""
    THEN [IsError |-> TRUE, Text |-> tmErr]
    ELSE [IsError |-> FALSE, Text |-> "ok"]

\* a JSON-RPC exchange: the request (method, whether its params parse, the
\* version requested, the tool called, whether its argument is missing), the
\* error the Task Manager returned to the tool, and the response (error code
\* and data, or the result's fields: those of an InitializeResult, the tools of
\* a tools/list result, those of a CallToolResult); id is the request's id
\* (0: none), respId the response's, hasResult whether response.Result is set,
\* and code # 0 stands for a set response.Error
\* ---- HTTP middleware chain (server.go) ----
\* Which entries of Auth.AllowedIPs have the CIDR form, and which addresses
\* an entry contains (net.ParseCIDR fails on "10.0.0.0/33").
IsCIDRForm(entry) == entry \in {"10.0.0.0/24", "10.0.0.0/33"}
isIPInCIDR(ip, cidr) ==
    IF cidr = "10.0.0.0/24" THEN ip \in {"10.0.0.1", "10.0.0.2"}
    ELSE FALSE

\* The Authorization headers a client sends (an optional "Bearer " prefix and
\* the rest), and the token files with their lines (hash: a comment line).
NoHeader == [bearer |-> FALSE, rest |-> ""]
AuthHeaders == [bearer : BOOLEAN, rest : {"", "t1", "t2"}]
TokenFiles ==
    { [path |-> "", readable |-> FALSE, lines |-> << >>],
      [path |-> "tokens", readable |-> FALSE, lines |-> << >>],
      [path |-> "tokens", readable |-> TRUE, lines |-> << >>],
      [path |-> "tokens", readable |-> TRUE,
       lines |-> << [hash |-> TRUE, text |-> "t2"], [hash |-> FALSE, text |-> ""],
                    [hash |-> FALSE, text |-> "t1"] >>] }

HealthPath == "/health"

NoHttp ==
    [pc |-> "none", calls |-> 0, status |-> 0, reached |-> FALSE,
     req |-> [method |-> "GET", path |-> "/mcp", xff |-> "", remote |-> "10.0.0.1",
              auth |-> NoHeader],
     cfg |-> [enabled |-> FALSE, allowed |-> {}, method |-> "none",
              file |-> [path |-> "", readable |-> FALSE, lines |-> << >>]]]

\* getClientIP: the first entry of X-Forwarded-For when the header is there,
\* else the host of RemoteAddr.
getClientIP(req) == IF req.xff # "" THEN req.xff ELSE req.remote

validateClientIP(cfg, req) ==
    IF cfg.allowed = {} THEN TRUE
    ELSE \E allowedIP \in cfg.allowed :
            \/ allowedIP = "*"
            \/ allowedIP = getClientIP(req)
            \/ IsCIDRForm(allowedIP) /\ isIPInCIDR(getClientIP(req), allowedIP)

\* loadValidTokens: an error (ok = FALSE) without a configured or readable
\* file, else the trimmed lines that are neither empty nor comments.
loadValidTokens(cfg) ==
    IF cfg.file.path = "" \/ ~cfg.file.readable
    THEN [ok |-> FALSE, tokens |-> {}]
    ELSE [ok |-> TRUE,
          tokens |-> { cfg.file.lines[i].text : i \in
                         { j \in DOMAIN cfg.file.lines :
                             /\ cfg.file.lines[j].text # ""
                             /\ ~cfg.file.lines[j].hash } }]

\* The token validateToken compares: the header without its "Bearer " prefix,
\* or the whole header when it has none.
PresentedToken(req) == req.auth.rest

validateTokenAnyToken(cfg, req) ==
    /\ req.auth # NoHeader
    /\ PresentedToken(req) # ""

validateToken(cfg, req) ==
    /\ req.auth # NoHeader
    /\ PresentedToken(req) # ""
    /\ loadValidTokens(cfg).ok
    /\ PresentedToken(req) \in loadValidTokens(cfg).tokens

\* authMiddleware: the status it writes (0: none) and whether it calls next.
authMiddleware(cfg, req) ==
    IF req.path = HealthPath THEN [status |-> 0, next |-> TRUE]
    ELSE IF ~cfg.enabled THEN [status |-> 0, next |-> TRUE]
    ELSE IF ~validateClientIP(cfg, req) THEN [status |-> 403, next |-> FALSE]
    ELSE IF cfg.method = "token" /\ ~validateToken(cfg, req)
         THEN [status |-> 401, next |-> FALSE]
    ELSE [status |-> 0, next |-> TRUE]

\* withMiddleware: CORS outermost (it answers OPTIONS itself), then
\* authentication when Auth.Enabled, then logging and the mux.
withMiddleware(cfg, req) ==
    IF req.method = "OPTIONS" THEN [status |-> 200, next |-> FALSE]
    ELSE IF cfg.enabled THEN authMiddleware(cfg, req)
    ELSE [status |-> 0, next |-> TRUE]

NoRpc ==
    [id |-> 0, respId |-> 0, hasResult |-> FALSE,
     method |-> "none", paramsOk |-> TRUE, requested |-> "", tool |-> "",
     argMissing |-> FALSE, tmErr |-> "", code |-> 0, data |-> "",
     ProtocolVersion |-> "", ServerInfo |-> "", tools |-> << >>,
     IsError |-> FALSE, Text |-> ""]

\* processJSONRPCRequest, case "initialize"
InitializeResponse(paramsOk, v) ==
    LET req == [NoRpc EXCEPT !.method = "initialize", !.paramsOk = paramsOk,
                             !.requested = v]
    IN IF ~paramsOk
       THEN [req EXCEPT !.code = -32602, !.data = "invalid params"]
       ELSE IF Initialize(v).err # ""
       THEN [req EXCEPT !.code = -32603, !.data = Initialize(v).err]
       ELSE [req EXCEPT !.hasResult = TRUE,
                        !.ProtocolVersion = Initialize(v).ProtocolVersion,
                        !.ServerInfo = Initialize(v).ServerInfo]

\* processJSONRPCRequest, case "tools/list" (ListTools returns no error)
ToolsListResponse ==
    [NoRpc EXCEPT !.method = "tools/list", !.hasResult = TRUE, !.tools = ListTools]

\* processJSONRPCRequest, case "tools/call"
ToolsCallResponse(paramsOk, name, argMissing, tmErr) ==
    LET req == [NoRpc EXCEPT !.method = "tools/call", !.paramsOk = paramsOk,
                             !.tool = name, !.argMissing = argMissing]
    IN IF ~paramsOk
       THEN [req EXCEPT !.code = -32602, !.data = "invalid params"]
       ELSE [req EXCEPT !.tmErr = tmErr,
                        !.hasResult = TRUE,
                        !.IsError = CallTool(name, argMissing, tmErr).IsError,
                        !.Text = CallTool(name, argMissing, tmErr).Text]

\* processJSONRPCRequest, default case
MethodNotFoundEmpty(method) == [NoRpc EXCEPT !.method = method]
MethodNotFound(method) == [NoRpc EXCEPT !.method = method, !.code = -32601]

\* processJSONRPCRequest: the response gets the request's id, and the switch
\* over req.Method fills it.  paramsOk and v: the params of initialize; name,
\* argMissing and tmErr: those of tools/call and what the Task Manager returns
DispatchRequest(id, method, paramsOk, v, name, argMissing, tmErr) ==
    LET resp == IF method = "initialize" THEN InitializeResponse(paramsOk, v)
                ELSE IF method = "tools/list" THEN ToolsListResponse
                ELSE IF method = "tools/call"
                THEN ToolsCallResponse(paramsOk, name, argMissing, tmErr)
                ELSE MethodNotFound(method)
    IN  [resp EXCEPT !.id = id, !.respId = id]

\* processJSONRPCRequest for the methods a line on the stdio channel may name
\* here: initialize, tools/list, and a method the server does not have
ProcessJSONRPCRequest(method, v) ==
    IF method = "initialize"
    THEN InitializeResponse(TRUE, v)
    ELSE IF method = "tools/list"
    THEN ToolsListResponse
    ELSE MethodNotFound(method)

(* -------------------------- MultiTransport --------------------------- *)
\* a channel behind the Transport interface: whether its Start and its Stop
\* return an error
Transports == [startErr : BOOLEAN, stopErr : BOOLEAN]

\* NewMultiTransport followed by AddTransport of each channel of ts; startCalls
\* and stopCalls list the channels whose Start / Stop was called, in call order;
\* startRet and stopRet are what Start / Stop returned: -1 not returned, 0 nil,
\* i the error of channel i
NewMultiTransport(ts) ==
    [transports |-> ts, startCalls |-> << >>, startRet |-> -1,
     stopCalls |-> << >>, stopRet |-> -1]

\* the loop of MultiTransport.Start from channel i on
RECURSIVE StartFrom(_, _)
StartFrom(ts, i) ==
    IF i > Len(ts) THEN [calls |-> << >>, err |-> 0]
    ELSE IF ts[i].startErr THEN [calls |-> << i >>, err |-> i]
    ELSE LET rest == StartFrom(ts, i + 1)
         IN  [calls |-> << i >> \o rest.calls, err |-> rest.err]

\* what a Stop that returns at the first channel whose Stop fails calls and
\* returns
MultiTransportStopShortCircuit(ts) ==
    LET F == { i \in 1..Len(ts) : ts[i].stopErr }
        first == IF F = {} THEN 0 ELSE CHOOSE i \in F : \A j \in F : i <= j
    IN  [calls |-> [i \in 1..(IF F = {} THEN Len(ts) ELSE first) |-> i], err |-> first]

\* the loop of MultiTransport.Stop from channel i on, lastErr being last
RECURSIVE StopFrom(_, _, _)
StopFrom(ts, i, last) ==
    IF i > Len(ts) THEN [calls |-> << >>, err |-> last]
    ELSE LET rest == StopFrom(ts, i + 1, IF ts[i].stopErr THEN i ELSE last)
         IN  [calls |-> << i >> \o rest.calls, err |-> rest.err]

\* what MultiTransport.Start calls and returns
MultiTransportStart(ts) == StartFrom(ts, 1)

\* what MultiTransport.Stop calls and returns
MultiTransportStop(ts) == StopFrom(ts, 1, 0)

(* -------------------------- stdio transport -------------------------- *)
\* lines on the reader: an empty line, a line that is no JSON, a line longer
\* than bufio.Scanner's buffer (bufio.MaxScanTokenSize, 64 KiB), and requests
\* with an id
RequestIds == {1, 2}
RequestLines ==
    { [kind |-> "request", method |-> "initialize", id |-> i, version |-> v] :
          i \in RequestIds, v \in {MCPVersion, "2025-03-26"} }
    \cup { [kind |-> "request", method |-> "resources/list", id |-> i, version |-> ""] :
          i \in RequestIds }
StdioLines ==
    { [kind |-> "empty", method |-> "", id |-> 0, version |-> ""],
      [kind |-> "invalid", method |-> "", id |-> 0, version |-> ""],
      [kind |-> "long", method |-> "", id |-> 0, version |-> ""] } \cup RequestLines

\* NewStdioTransport on a reader that will deliver `lines`: pc is the position
\* of messageLoop, seen the lines the scanner has consumed, out the responses
\* handed to the encoder (resp, with line the number of the line answered and
\* id 0 for nil), the JSON line encoded for each (wire), and whether the writer
\* took it (written)
NewStdioTransport(lines) ==
    [pc |-> "none", ctxDone |-> FALSE, input |-> lines, seen |-> << >>, out |-> << >>]

\* the response messageLoop encodes for a line that json.Unmarshal rejects
ParseErrorResponse(n, line) == [line |-> n, id |-> 0, code |-> -32700]

\* json.Encoder on a JSONRPCResponse: ID is tagged omitempty, so the line has
\* an "id" member only when the ID is not nil
EncodeResponse(resp) == [line |-> resp.line, hasId |-> resp.id # 0, id |-> resp.id, code |-> resp.code]

\* the response messageLoop encodes for a request: the handler's, with the
\* request's id
RequestResponse(n, line) ==
    [line |-> n, id |-> line.id, code |-> ProcessJSONRPCRequest(line.method, line.version).code]

(* ------------------------------- Init -------------------------------- *)
\* the state NewTaskManager and NewWorktreeManager construct
InitState ==
    /\ nano = 1
    /\ panicked = 0
    /\ http = NoHttp
    /\ tmStarted = FALSE
    /\ tmDone = FALSE
    /\ tmStopErr = "none"
    /\ returned = NoReturn
    /\ rpc = NoRpc
    /\ objs = << >>
    /\ tasks = [i \in TaskIds |-> 0]
    /\ taskQueue = << >>
    /\ submitting = {}
    /\ cancelling = {}
    /\ lastSubmit = "none"
    /\ accepted = {}
    /\ pendCancelled = {}
    /\ wpc = [w \in WorkerIds |-> "none"]
    /\ wreq = [w \in WorkerIds |-> NoReq]
    /\ wst = [w \in WorkerIds |-> 0]
    /\ currentTask = [w \in WorkerIds |-> 0]
    /\ wctxDone = [w \in WorkerIds |-> FALSE]
    /\ werr = [w \in WorkerIds |-> ""]
    /\ wwt = [w \in WorkerIds |-> 0]
    /\ wmStarted = FALSE
    /\ wmDone = FALSE
    /\ worktrees = [i \in WtIds |-> NoWt]
    /\ wtClock = MaxOldDirs

\* a configuration (cfg.MaxConcurrentTasks, cfg.Queue.MaxSize, cfg.MaxWorktrees)
\* and the wt_* directories earlier runs left in the storage directory; the
\* callers are the transports, which encode a returned status at once, and
\* nothing arrives on the stdio channel
Configured(nw, nq, nm, dirs) ==
    /\ cfgWorkers = nw
    /\ cfgQueueMax = nq
    /\ cfgMaxWt = nm
    /\ disk = dirs
    /\ callerKeeps = FALSE
    /\ stdio = NewStdioTransport(<< >>)
    /\ multiTransport = NewMultiTransport(<< >>)
    /\ reader = NoReader

(* ----------------------- life cycle and clock ------------------------ *)
\* the transports serve requests between the managers' Start and Stop
\* (mcpServer.Start / mcpServer.Stop)
Serving == tmStarted /\ ~tmDone

\* one clock tick passes: every stored time stamp is one tick older
Tick ==
    /\ objs' = [k \in 1..Len(objs) |-> [objs[k] EXCEPT !.EndTime = Older(objs[k].EndTime)]]
    /\ worktrees' = [i \in WtIds |-> [worktrees[i] EXCEPT !.LastUsed = Older(worktrees[i].LastUsed)]]
    /\ returned' = [returned EXCEPT !.snap.EndTime = Older(returned.snap.EndTime)]
    /\ UNCHANGED << cfgVars, http, reader, panicked, multiTransport, stdio, rpc, nano, tmStarted, tmDone, tmStopErr, tasks, taskQueue, submitting,
                    cancelling, ghostVars, workerVars, wmStarted, wmDone, disk, wtClock >>

\* taskManager.Start: one goroutine per worker, each with a child context of tm.ctx
TMStart ==
    /\ wmStarted
    /\ ~tmStarted
    /\ tmStarted' = TRUE
    /\ wpc' = [w \in WorkerIds |-> IF w \in Workers THEN "idle" ELSE "none"]
    /\ UNCHANGED << cfgVars, http, reader, panicked, multiTransport, stdio, rpc, returned, nano, tmDone, tmStopErr, objs, tasks, taskQueue, submitting,
                    cancelling, ghostVars, wreq, wst, currentTask, wctxDone, werr, wwt,
                    wmVars >>

\* taskManager.Stop: tm.cancel() cancels tm.ctx and with it every worker.ctx
TMStop ==
    /\ tmStarted
    /\ ~tmDone
    /\ tmDone' = TRUE
    /\ wctxDone' = [w \in WorkerIds |-> IF w \in Workers THEN TRUE ELSE wctxDone[w]]
    /\ UNCHANGED << cfgVars, http, reader, panicked, multiTransport, stdio, rpc, returned, nano, tmStarted, tmStopErr, objs, tasks, taskQueue,
                    submitting, cancelling, ghostVars, wpc, wreq, wst, currentTask, werr,
                    wwt, wmVars >>

\* the wait group of Start has drained: every worker goroutine has returned
\* (the reaper returns from its select once tm.ctx is cancelled)
WaitGroupDrained == tmDone /\ \A w \in Workers : wpc[w] = "exited"

\* the cases Stop's select may take after tm.cancel(): <-done once wg.Wait() has
\* returned, <-ctx.Done() once the caller's deadline has passed
StopSelectNoWait(drained, deadline) ==
    {""} \cup (IF deadline THEN {"DEADLINE_EXCEEDED"} ELSE {})
StopSelect(drained, deadline) ==
    (IF drained THEN {""} ELSE {}) \cup (IF deadline THEN {"DEADLINE_EXCEEDED"} ELSE {})

\* taskManager.Stop returns.  deadline: the caller's context is done
TMStopReturn(deadline) ==
    /\ tmDone
    /\ tmStopErr = "none"
    /\ \E r \in StopSelect(WaitGroupDrained, deadline) : tmStopErr' = r
    /\ UNCHANGED << cfgVars, http, reader, panicked, multiTransport, stdio, rpc, returned, nano, tmStarted, tmDone, objs, tasks, taskQueue,
                    submitting, cancelling, ghostVars, workerVars, wmVars >>

(* ------------------------ StdioTransport loop ------------------------ *)
\* StdioTransport.Start: go t.messageLoop()
StdioStart ==
    /\ stdio.pc = "none"
    /\ stdio' = [stdio EXCEPT !.pc = "select"]
    /\ UNCHANGED << cfgVars, http, reader, panicked, multiTransport, returned, rpc, nano, tmStarted, tmDone, tmStopErr, objs, tasks,
                    taskQueue, submitting, cancelling, ghostVars, workerVars, wmVars >>

\* StdioTransport.Stop: t.cancel()
StdioStop ==
    /\ stdio.pc # "none"
    /\ ~stdio.ctxDone
    /\ stdio' = [stdio EXCEPT !.ctxDone = TRUE]
    /\ UNCHANGED << cfgVars, http, reader, panicked, multiTransport, returned, rpc, nano, tmStarted, tmDone, tmStopErr, objs, tasks,
                    taskQueue, submitting, cancelling, ghostVars, workerVars, wmVars >>

\* messageLoop's select: return when t.ctx is done, else go on to scanner.Scan()
StdioSelect ==
    /\ stdio.pc = "select"
    /\ stdio' = [stdio EXCEPT !.pc = IF stdio.ctxDone THEN "exited" ELSE "scan"]
    /\ UNCHANGED << cfgVars, http, reader, panicked, multiTransport, returned, rpc, nano, tmStarted, tmDone, tmStopErr, objs, tasks,
                    taskQueue, submitting, cancelling, ghostVars, workerVars, wmVars >>

\* messageLoop from scanner.Scan() to the end of the iteration: at the end of
\* the input and on a line the scanner cannot hold, Scan returns false and the
\* loop returns; an empty line is skipped; a line that is no JSON is answered
\* with a parse error; a request goes to the handler and its response is
\* encoded.  writeOk: the writer takes the encoded line
StdioScan(writeOk) ==
    /\ stdio.pc = "scan"
    /\ IF stdio.input = << >>
       THEN /\ stdio' = [stdio EXCEPT !.pc = "exited"]
            /\ rpc' = rpc
       ELSE LET line == Head(stdio.input)
                n == Len(stdio.seen) + 1
                read == [stdio EXCEPT !.input = Tail(stdio.input),
                                      !.seen = Append(stdio.seen, line)]
            IN IF line.kind = "long"
               THEN /\ stdio' = [read EXCEPT !.pc = "exited"]
                    /\ rpc' = rpc
               ELSE IF line.kind = "empty"
               THEN /\ stdio' = [read EXCEPT !.pc = "select"]
                    /\ rpc' = rpc
               ELSE IF line.kind = "invalid"
               THEN /\ stdio' = [read EXCEPT
                                   !.pc = "select",
                                   !.out = Append(stdio.out,
                                       [resp |-> ParseErrorResponse(n, line),
                                        wire |-> EncodeResponse(ParseErrorResponse(n, line)),
                                        written |-> writeOk])]
                    /\ rpc' = rpc
               ELSE /\ stdio' = [read EXCEPT
                                   !.pc = "select",
                                   !.out = Append(stdio.out,
                                       [resp |-> RequestResponse(n, line),
                                        wire |-> EncodeResponse(RequestResponse(n, line)),
                                        written |-> writeOk])]
                    /\ rpc' = ProcessJSONRPCRequest(line.method, line.version)
    /\ UNCHANGED << cfgVars, http, reader, panicked, multiTransport, returned, nano, tmStarted, tmDone, tmStopErr, objs, tasks,
                    taskQueue, submitting, cancelling, ghostVars, workerVars, wmVars >>

\* MultiTransport.Start
MTStart ==
    /\ multiTransport.startRet = -1
    /\ LET r == MultiTransportStart(multiTransport.transports)
       IN  multiTransport' = [multiTransport EXCEPT !.startCalls = r.calls, !.startRet = r.err]
    /\ UNCHANGED << cfgVars, http, reader, panicked, stdio, rpc, returned, nano, tmStarted, tmDone, tmStopErr, objs, tasks,
                    taskQueue, submitting, cancelling, ghostVars, workerVars, wmVars >>

\* MultiTransport.Stop
MTStop ==
    /\ multiTransport.stopRet = -1
    /\ LET r == MultiTransportStop(multiTransport.transports)
       IN  multiTransport' = [multiTransport EXCEPT !.stopCalls = r.calls, !.stopRet = r.err]
    /\ UNCHANGED << cfgVars, http, reader, panicked, stdio, rpc, returned, nano, tmStarted, tmDone, tmStopErr, objs, tasks,
                    taskQueue, submitting, cancelling, ghostVars, workerVars, wmVars >>

(* ---------------------------- HealthCheck ---------------------------- *)
\* the worker goroutines that have been started and have not returned
AliveWorkers == { w \in Workers : wpc[w] \notin {"none", "exited"} }

\* taskManager.HealthCheck: counts the workers of tm.workers whose context is
\* not done, then compares the queue length with cfg.Queue.MaxSize
TMHealthCheck ==
    IF { w \in Workers : wpc[w] # "none" /\ ~wctxDone[w] } = {}
    THEN "INSTANCE_FAILED"
    ELSE IF Len(taskQueue) >= cfgQueueMax
    THEN "TASK_NOT_SUPPORTED"
    ELSE ""

\* worktreeManager.HealthCheck.  baseDirOk: os.Stat finds wm.baseDir
WMHealthCheck(baseDirOk) == IF baseDirOk THEN "" ELSE "WORKTREE_FAILED"

\* protocolHandler.HealthCheck
HandlerHealthCheck(baseDirOk) ==
    IF TMHealthCheck # "" THEN TMHealthCheck ELSE WMHealthCheck(baseDirOk)

(* ---------------------------- SubmitTask ----------------------------- *)
\* SubmitTask up to the release of tasksMutex: the ID (generated from the clock
\* when the request has none), a fresh pending record, tm.tasks[req.ID] = status.
\* cd: the caller's context is done when the select is reached.
SubmitRegister(req, cd) ==
    /\ Serving
    /\ Len(objs) < MaxSubmits
    /\ \E n \in nano..MaxTaskId :
         LET id == IF req.ID = 0 THEN n ELSE req.ID
             o == Len(objs) + 1
         IN /\ nano' = IF req.ID = 0 THEN n ELSE nano
            /\ tasks' = [tasks EXCEPT ![id] = o]
            /\ submitting' = submitting \cup
                 { [req |-> [req EXCEPT !.ID = id], obj |-> o, ctxDone |-> cd] }
            /\ objs' = Collect(Append(objs, NewStatus(id)), tasks', wst, submitting', returned, reader.ref)
    /\ UNCHANGED << cfgVars, http, reader, panicked, multiTransport, stdio, rpc, returned, tmStarted, tmDone, tmStopErr, taskQueue, cancelling, ghostVars,
                    workerVars, wmVars >>

\* the cases SubmitTask's select may take: the send and <-ctx.Done() when they
\* are ready (Go picks either when both are), default only when neither is
SubmitSelectEagerDefault(room, done) ==
    (IF room THEN {"ok"} ELSE {}) \cup (IF done THEN {"CTX_CANCELLED"} ELSE {})
        \cup {"QUEUE_FULL"}
SubmitSelect(room, done) ==
    (IF room THEN {"ok"} ELSE {}) \cup (IF done THEN {"CTX_CANCELLED"} ELSE {})
        \cup (IF ~room /\ ~done THEN {"QUEUE_FULL"} ELSE {})

\* what SubmitTask's caller holds after the call: on success the pointer status
\* that tm.tasks holds as well (ref), whose value is then snap; on an error nil,
\* and the caller keeps what an earlier call returned
SubmitTaskReturn(r, o, heap, before) ==
    IF r = "ok" THEN [ref |-> o, snap |-> heap[o]] ELSE before

\* SubmitTask from the select on: enqueue, or delete(tm.tasks, req.ID) and fail
SubmitEnqueueFrom(c, viaTool) ==
    /\ c \in submitting
    /\ submitting' = submitting \ {c}
    /\ \E r \in SubmitSelect(QueueHasRoom(taskQueue), c.ctxDone) :
         /\ lastSubmit' = r
         /\ rpc' = IF viaTool
                   THEN ToolsCallResponse(TRUE, "execute_claude_code", FALSE,
                                          IF r = "ok" THEN "" ELSE r)
                   ELSE rpc
         /\ returned' = IF callerKeeps THEN SubmitTaskReturn(r, c.obj, objs, returned)
                        ELSE returned
         /\ IF r = "ok"
            THEN /\ taskQueue' = Append(taskQueue, c.req)
                 /\ tasks' = tasks
                 /\ accepted' = accepted \cup {c.req.ID}
            ELSE /\ tasks' = [tasks EXCEPT ![c.req.ID] = 0]
                 /\ UNCHANGED << taskQueue, accepted >>
    /\ objs' = Collect(objs, tasks', wst, submitting', returned', reader.ref)
    /\ UNCHANGED << cfgVars, http, reader, panicked, multiTransport, stdio, nano, tmStarted, tmDone, tmStopErr, cancelling, pendCancelled,
                    workerVars, wmVars >>

\* SubmitTask called by handleTasks (POST /tasks)
SubmitEnqueue(c) == SubmitEnqueueFrom(c, FALSE)

(* ---------------------------- CancelTask ----------------------------- *)
\* CancelTask(id) on a heap of status records and a task table: the error
\* returned, the heap it leaves, and whether it goes on to notify the workers
CancelTaskLetsFailedThrough(heap, table, id) ==
    IF table[id] = 0
    THEN [err |-> "TASK_NOT_FOUND", objs |-> heap, notify |-> FALSE]
    ELSE IF heap[table[id]].Status \in {"completed", "cancelled"}
    THEN [err |-> "TASK_CANCELLED", objs |-> heap, notify |-> FALSE]
    ELSE [err |-> "",
          objs |-> [heap EXCEPT ![table[id]].Status = "cancelled",
                                ![table[id]].EndTime = TimeNow],
          notify |-> TRUE]
CancelTaskResult(heap, table, id) ==
    IF table[id] = 0
    THEN [err |-> "TASK_NOT_FOUND", objs |-> heap, notify |-> FALSE]
    ELSE IF heap[table[id]].Status \in {"completed", "failed", "cancelled"}
    THEN [err |-> "TASK_CANCELLED", objs |-> heap, notify |-> FALSE]
    ELSE [err |-> "",
          objs |-> [heap EXCEPT ![table[id]].Status = "cancelled",
                                ![table[id]].EndTime = TimeNow],
          notify |-> TRUE]

\* CancelTask up to the release of tasksMutex; called by the cancel_task tool
\* (viaTool), whose result its error decides, or by another caller
CancelMarkFrom(id, viaTool) ==
    /\ Serving
    /\ LET r == CancelTaskResult(objs, tasks, id) IN
       /\ rpc' = IF viaTool THEN ToolsCallResponse(TRUE, "cancel_task", FALSE, r.err)
                 ELSE rpc
       /\ objs' = r.objs
       /\ cancelling' = IF r.notify THEN cancelling \cup { [ID |-> id, i |-> 1] }
                        ELSE cancelling
       /\ pendCancelled' = IF r.notify /\ objs[tasks[id]].Status = "pending"
                           THEN pendCancelled \cup {id} ELSE pendCancelled
    /\ UNCHANGED << cfgVars, http, reader, panicked, multiTransport, stdio, returned, nano, tmStarted, tmDone, tmStopErr, tasks,
                    taskQueue, submitting, lastSubmit, accepted, workerVars, wmVars >>

CancelMark(id) == CancelMarkFrom(id, FALSE)

\* initialize over JSON-RPC
RPCInitialize(paramsOk, v) ==
    /\ Serving
    /\ rpc' = InitializeResponse(paramsOk, v)
    /\ UNCHANGED << cfgVars, http, reader, panicked, multiTransport, stdio, returned, nano, tmStarted, tmDone, tmStopErr, objs, tasks,
                    taskQueue, submitting, cancelling, ghostVars, workerVars, wmVars >>

\* a decoded JSON-RPC request of any kind handed to processJSONRPCRequest, the
\* Task Manager answering the tool with tmErr
\* One HTTP request served by the chain of withMiddleware; a request that
\* reaches the mux is a handler call, whose status the handler writes.  The
\* configuration is the one the server was built with, for every request.
HTTPRequest(cfg, req) ==
    /\ http.calls < MaxHandlerCalls
    /\ http.pc = "none" \/ cfg = http.cfg
    /\ http' = [pc |-> "served",
                calls |-> IF withMiddleware(cfg, req).next THEN http.calls + 1 ELSE http.calls,
                status |-> withMiddleware(cfg, req).status,
                reached |-> withMiddleware(cfg, req).next,
                req |-> req, cfg |-> cfg]
    /\ UNCHANGED << cfgVars, reader, panicked, multiTransport, stdio, rpc, returned, nano,
                    tmStarted, tmDone, tmStopErr, objs, tasks, taskQueue, submitting,
                    cancelling, ghostVars, workerVars, wmVars >>

RPCDispatch(id, method, paramsOk, v, name, argMissing, tmErr) ==
    /\ rpc' = DispatchRequest(id, method, paramsOk, v, name, argMissing, tmErr)
    /\ UNCHANGED << cfgVars, http, reader, panicked, multiTransport, stdio, returned, nano, tmStarted, tmDone, tmStopErr, objs, tasks,
                    taskQueue, submitting, cancelling, ghostVars, workerVars, wmVars >>

\* tools/list over JSON-RPC
RPCToolsList ==
    /\ Serving
    /\ rpc' = ToolsListResponse
    /\ UNCHANGED << cfgVars, http, reader, panicked, multiTransport, stdio, returned, nano, tmStarted, tmDone, tmStopErr, objs, tasks,
                    taskQueue, submitting, cancelling, ghostVars, workerVars, wmVars >>

\* tools/call over JSON-RPC for the calls that change nothing in the Task
\* Manager: params that do not parse, an unknown tool, a missing argument,
\* get_task_status and list_tasks.  arg: the task ID given (0: none)
ToolsCallReadOnly(paramsOk, name, arg) ==
    /\ Serving
    /\ ~paramsOk => name = "" /\ arg = 0
    /\ paramsOk /\ name = "execute_claude_code" => arg = 0
    /\ paramsOk /\ name = "cancel_task" => arg = 0
    /\ rpc' = ToolsCallResponse(paramsOk, name, arg = 0,
                                IF name = "get_task_status" /\ arg # 0
                                THEN GetTaskStatus(arg).err ELSE "")
    /\ UNCHANGED << cfgVars, http, reader, panicked, multiTransport, stdio, returned, nano, tmStarted, tmDone, tmStopErr, objs, tasks,
                    taskQueue, submitting, cancelling, ghostVars, workerVars, wmVars >>

\* one iteration of CancelTask's loop over tm.workers: worker.cancel() when the
\* worker's currentTask has the ID
CancelNotify(c) ==
    /\ c \in cancelling
    /\ LET w == c.i
           hit == currentTask[w] # 0 /\ objs[currentTask[w]].ID = c.ID
       IN /\ wctxDone' = IF hit THEN [wctxDone EXCEPT ![w] = TRUE] ELSE wctxDone
          /\ cancelling' = (cancelling \ {c}) \cup
                           (IF c.i < cfgWorkers THEN { [ID |-> c.ID, i |-> c.i + 1] } ELSE {})
    /\ UNCHANGED << cfgVars, http, reader, panicked, multiTransport, stdio, rpc, returned, nano, tmStarted, tmDone, tmStopErr, objs, tasks, taskQueue,
                    submitting, ghostVars, wpc, wreq, wst, currentTask, werr, wwt, wmVars >>

(* ------------------------------ reaper ------------------------------- *)
\* the IDs cleanupCompletedTasks deletes
ReapableAnyAge ==
    { id \in TaskIds : /\ tasks[id] # 0
                       /\ objs[tasks[id]].Status \in {"completed", "failed", "cancelled"}
                       /\ objs[tasks[id]].EndTime # NoTime }
Reapable ==
    { id \in TaskIds : /\ tasks[id] # 0
                       /\ objs[tasks[id]].Status \in {"completed", "failed", "cancelled"}
                       /\ objs[tasks[id]].EndTime # NoTime
                       /\ BeforeCutoff(objs[tasks[id]].EndTime, Retention) }

\* runTaskCleaner's tick: cleanupCompletedTasks
CleanupCompletedTasks ==
    /\ tmStarted
    /\ ~tmDone
    /\ tasks' = [id \in TaskIds |-> IF id \in Reapable THEN 0 ELSE tasks[id]]
    /\ accepted' = accepted \ Reapable
    /\ pendCancelled' = pendCancelled \ Reapable
    /\ objs' = Collect(objs, tasks', wst, submitting, returned, reader.ref)
    /\ UNCHANGED << cfgVars, http, reader, panicked, multiTransport, stdio, rpc, returned, nano, tmStarted, tmDone, tmStopErr, taskQueue, submitting,
                    cancelling, lastSubmit, workerVars, wmVars >>

(* ------------------------- worktree manager -------------------------- *)
LiveWt == { i \in WtIds : worktrees[i].Status # "none" }

\* the entries cleanupIdleWorktrees selects: idle and last used before the cutoff
ExpiredIdleAnyStatus ==
    { i \in LiveWt : BeforeCutoff(worktrees[i].LastUsed, IdleTTL) }
ExpiredIdle ==
    { i \in LiveWt : worktrees[i].Status = "idle" /\ BeforeCutoff(worktrees[i].LastUsed, IdleTTL) }

\* the table after cleanupIdleWorktrees when os.RemoveAll fails for `failed`
TableAfterCleanup(failed) ==
    [i \in WtIds |-> IF i \in ExpiredIdle \ failed THEN NoWt ELSE worktrees[i]]

\* the entry CreateWorktree stores
NewWorktree(path) == [Status |-> "active", LastUsed |-> RFC3339(TimeNow), ProjectPath |-> path]

\* the entry scanExistingWorktrees stores for a directory modified m ticks ago
ScannedWorktree(m) ==
    [Status |-> "idle", LastUsed |-> RFC3339([set |-> TRUE, age |-> m]), ProjectPath |-> ""]

\* the length check of CreateWorktree
PoolFullOffByOne(table) == Cardinality({ i \in WtIds : table[i].Status # "none" }) > cfgMaxWt
PoolFull(table) == Cardinality({ i \in WtIds : table[i].Status # "none" }) >= cfgMaxWt

\* worktreeManager.Start: scanExistingWorktrees registers every wt_* directory
WMStart ==
    /\ ~wmStarted
    /\ wmStarted' = TRUE
    /\ \E mt \in [disk -> 0..OldestAge] :
         worktrees' = [i \in WtIds |-> IF i \in disk THEN ScannedWorktree(mt[i]) ELSE worktrees[i]]
    /\ UNCHANGED << cfgVars, http, reader, panicked, multiTransport, stdio, rpc, returned, nano, tmStarted, tmDone, tmStopErr, objs, tasks, taskQueue,
                    submitting, cancelling, ghostVars, workerVars, wmDone, disk, wtClock >>

\* worktreeManager.Stop, called by mcpServer.Stop after the task manager's Stop
WMStop ==
    /\ tmDone
    /\ ~wmDone
    /\ wmDone' = TRUE
    /\ UNCHANGED << cfgVars, http, reader, panicked, multiTransport, stdio, rpc, returned, nano, tmStarted, tmDone, tmStopErr, objs, tasks, taskQueue,
                    submitting, cancelling, ghostVars, workerVars, wmStarted, worktrees,
                    disk, wtClock >>

\* CleanupWorktrees, called by runCleaner on every tick of its ticker
CleanupWorktrees ==
    /\ wmStarted
    /\ ~wmDone
    /\ \E failed \in SUBSET ExpiredIdle :
         /\ worktrees' = TableAfterCleanup(failed)
         /\ disk' = disk \ (ExpiredIdle \ failed)
    /\ UNCHANGED << cfgVars, http, reader, panicked, multiTransport, stdio, rpc, returned, nano, tmStarted, tmDone, tmStopErr, objs, tasks, taskQueue,
                    submitting, cancelling, ghostVars, workerVars, wmStarted, wmDone,
                    wtClock >>

\* DeleteWorktree(id) on a table and a storage directory: the error returned
\* and what is left.  gitOk: git worktree remove succeeds (its failure is only
\* logged); rmOk: os.RemoveAll returns nil
DeleteWorktreeKeepsEntry(table, dirs, id, gitOk, rmOk) ==
    IF table[id].Status = "none"
    THEN [err |-> "WORKTREE_NOT_FOUND", table |-> table, disk |-> dirs]
    ELSE IF ~rmOk
    THEN [err |-> "WORKTREE_FAILED", table |-> table, disk |-> dirs]
    ELSE [err |-> "", table |-> table, disk |-> dirs \ {id}]
DeleteWorktreeStopsAtGit(table, dirs, id, gitOk, rmOk) ==
    IF table[id].Status = "none"
    THEN [err |-> "WORKTREE_NOT_FOUND", table |-> table, disk |-> dirs]
    ELSE IF ~gitOk \/ ~rmOk
    THEN [err |-> "WORKTREE_FAILED", table |-> table, disk |-> dirs]
    ELSE [err |-> "", table |-> [table EXCEPT ![id] = NoWt], disk |-> dirs \ {id}]
DeleteWorktreeResult(table, dirs, id, gitOk, rmOk) ==
    IF table[id].Status = "none"
    THEN [err |-> "WORKTREE_NOT_FOUND", table |-> table, disk |-> dirs]
    ELSE IF ~rmOk
    THEN [err |-> "WORKTREE_FAILED", table |-> table, disk |-> dirs]
    ELSE [err |-> "", table |-> [table EXCEPT ![id] = NoWt], disk |-> dirs \ {id}]

\* DeleteWorktree(id) from DELETE /worktrees/{id}
DeleteWorktree(id, rmOk) ==
    /\ Serving
    /\ \E gitOk \in BOOLEAN :
         /\ worktrees' = DeleteWorktreeResult(worktrees, disk, id, gitOk, rmOk).table
         /\ disk' = DeleteWorktreeResult(worktrees, disk, id, gitOk, rmOk).disk
    /\ UNCHANGED << cfgVars, http, reader, panicked, multiTransport, stdio, rpc, returned, nano, tmStarted, tmDone, tmStopErr, objs, tasks, taskQueue,
                    submitting, cancelling, ghostVars, workerVars, wmStarted, wmDone,
                    wtClock >>

\* GetWorktree(id) from GET /worktrees/{id}: refreshes LastUsed, holding
\* wm.mutex.RLock
GetWorktree(id) ==
    /\ Serving
    /\ worktrees[id].Status # "none"
    /\ worktrees' = [worktrees EXCEPT ![id].LastUsed = RFC3339(TimeNow)]
    /\ reader' = IF reader.pc = "off" THEN reader
                 ELSE [reader EXCEPT !.access = [target |-> "worktree", kind |-> "write",
                                                  lock |-> "R"]]
    /\ UNCHANGED << cfgVars, http, panicked, multiTransport, stdio, rpc, returned, nano, tmStarted, tmDone, tmStopErr, objs, tasks, taskQueue,
                    submitting, cancelling, ghostVars, workerVars, wmStarted, wmDone,
                    disk, wtClock >>

(* --------------------------- GetTaskStatus --------------------------- *)
\* GetTaskStatus between RLock and RUnlock: the lookup in tm.tasks
GTSLookup(id) ==
    /\ reader.pc \in {"idle", "done"}
    /\ reader' = [pc |-> IF tasks[id] = 0 THEN "done" ELSE "copy",
                  ref |-> tasks[id], split |-> 0, copy |-> Freed,
                  access |-> [target |-> "tasks", kind |-> "read", lock |-> "R"]]
    /\ UNCHANGED << cfgVars, http, panicked, multiTransport, stdio, rpc, returned, nano, tmStarted, tmDone, tmStopErr, objs, tasks,
                    taskQueue, submitting, cancelling, ghostVars, workerVars, wmVars >>

\* statusCopy := *status, after RUnlock: the copy is not atomic, a writer may
\* get in after any of its fields; k fields are copied before
GTSCopyFirst(k) ==
    /\ reader.pc = "copy"
    /\ reader' = [reader EXCEPT !.pc = "rest", !.split = k,
                                !.copy = CopyFields(Freed, objs[reader.ref], 1, k),
                                !.access = [target |-> "status", kind |-> "copy",
                                            lock |-> "none"]]
    /\ UNCHANGED << cfgVars, http, panicked, multiTransport, stdio, rpc, returned, nano, tmStarted, tmDone, tmStopErr, objs, tasks,
                    taskQueue, submitting, cancelling, ghostVars, workerVars, wmVars >>

\* the rest of the copy, and the return of &statusCopy
GTSCopyRest ==
    /\ reader.pc = "rest"
    /\ reader' = [reader EXCEPT !.pc = "done", !.ref = 0, !.split = 0,
                                !.copy = CopyFields(reader.copy, objs[reader.ref],
                                                    reader.split + 1, Len(FieldOrder))]
    /\ objs' = Collect(objs, tasks, wst, submitting, returned, 0)
    /\ UNCHANGED << cfgVars, http, panicked, multiTransport, stdio, rpc, returned, nano, tmStarted, tmDone, tmStopErr, tasks,
                    taskQueue, submitting, cancelling, ghostVars, workerVars, wmVars >>

(* ------------------------------ workers ------------------------------ *)
tmVarsNoObjs == << tmStarted, tmDone, tmStopErr, tasks, taskQueue, submitting, cancelling >>

\* run: the select receives a request (it may do so with w.ctx done as well:
\* Go picks among the ready cases)
Dequeue(w) ==
    /\ wpc[w] = "idle"
    /\ taskQueue # << >>
    /\ wreq' = [wreq EXCEPT ![w] = Head(taskQueue)]
    /\ taskQueue' = Tail(taskQueue)
    /\ wpc' = [wpc EXCEPT ![w] = "begin"]
    /\ UNCHANGED << cfgVars, http, reader, panicked, multiTransport, stdio, rpc, returned, nano, tmStarted, tmDone, tmStopErr, objs, tasks, submitting,
                    cancelling, ghostVars, wst, currentTask, wctxDone, werr, wwt, wmVars >>

\* run: the select takes <-w.ctx.Done() and the goroutine returns
WorkerExit(w) ==
    /\ wpc[w] = "idle"
    /\ wctxDone[w]
    /\ wpc' = [wpc EXCEPT ![w] = "exited"]
    /\ UNCHANGED << cfgVars, http, reader, panicked, multiTransport, stdio, rpc, returned, nano, tmVarsNoObjs, objs, ghostVars, wreq, wst,
                    currentTask, wctxDone, werr, wwt, wmVars >>

\* the status executeTask moves a looked-up record to
BeginStatus(st) == [st EXCEPT !.Status = "running", !.Progress = 1]

\* executeTask, first critical section: look the record up, return when it is
\* missing or cancelled, else mark it running
Begin(w) ==
    /\ wpc[w] = "begin"
    /\ LET o == tasks[wreq[w].ID] IN
       IF o = 0 \/ objs[o].Status = "cancelled"
       THEN /\ wpc' = [wpc EXCEPT ![w] = "idle"]
            /\ wreq' = [wreq EXCEPT ![w] = NoReq]
            /\ UNCHANGED << objs, wst >>
       ELSE /\ objs' = [objs EXCEPT ![o] = BeginStatus(objs[o])]
            /\ wst' = [wst EXCEPT ![w] = o]
            /\ wpc' = [wpc EXCEPT ![w] = "setcur"]
            /\ wreq' = wreq
    /\ UNCHANGED << cfgVars, http, reader, panicked, multiTransport, stdio, rpc, returned, nano, tmVarsNoObjs, ghostVars, currentTask, wctxDone,
                    werr, wwt, wmVars >>

\* executeTask: w.currentTask = status under w.mutex, then the switch on req.Type
SetCurrent(w) ==
    /\ wpc[w] = "setcur"
    /\ currentTask' = [currentTask EXCEPT ![w] = wst[w]]
    /\ IF wreq[w].Type = "claude_code"
       THEN /\ wpc' = [wpc EXCEPT ![w] = "validate"]
            /\ werr' = werr
       ELSE /\ wpc' = [wpc EXCEPT ![w] = "final"]
            /\ werr' = [werr EXCEPT ![w] = "TASK_NOT_SUPPORTED"]
    /\ UNCHANGED << cfgVars, http, reader, panicked, multiTransport, stdio, rpc, returned, nano, tmVarsNoObjs, objs, ghostVars, wreq, wst,
                    wctxDone, wwt, wmVars >>

\* executeClaudeCodeTask: ValidatePath, then progress 0.2
Validate(w) ==
    /\ wpc[w] = "validate"
    /\ IF wreq[w].Path = "bad"
       THEN /\ werr' = [werr EXCEPT ![w] = "INVALID_PATH"]
            /\ wpc' = [wpc EXCEPT ![w] = "final"]
            /\ objs' = objs
       ELSE /\ objs' = [objs EXCEPT ![wst[w]].Progress = 2]
            /\ wpc' = [wpc EXCEPT ![w] = "convert"]
            /\ werr' = werr
    /\ UNCHANGED << cfgVars, http, reader, panicked, multiTransport, stdio, rpc, returned, nano, tmVarsNoObjs, ghostVars, wreq, wst, currentTask,
                    wctxDone, wwt, wmVars >>

\* executeClaudeCodeTask: ConvertToWSL, then progress 0.4
Convert(w) ==
    /\ wpc[w] = "convert"
    /\ IF wreq[w].Path # "winOk"
       THEN /\ werr' = [werr EXCEPT ![w] = "PATH_CONVERSION_FAILED"]
            /\ wpc' = [wpc EXCEPT ![w] = "final"]
            /\ objs' = objs
       ELSE /\ objs' = [objs EXCEPT ![wst[w]].Progress = 4]
            /\ wpc' = [wpc EXCEPT ![w] = "create"]
            /\ werr' = werr
    /\ UNCHANGED << cfgVars, http, reader, panicked, multiTransport, stdio, rpc, returned, nano, tmVarsNoObjs, ghostVars, wreq, wst, currentTask,
                    wctxDone, wwt, wmVars >>

\* CreateWorktree(ctx, req.ProjectPath) as called by worker w, one critical
\* section of wm.mutex.  failed: the expired entries whose os.RemoveAll fails;
\* made: copyDirectory / createGitWorktree succeeds; orphan: a failed copy
\* leaves the directory it started behind.
CreateWorktree(w, failed, made, orphan) ==
    LET swept == IF PoolFull(worktrees) THEN TableAfterCleanup(failed) ELSE worktrees
        sweptDisk == IF PoolFull(worktrees) THEN disk \ (ExpiredIdle \ failed) ELSE disk
        id == wtClock + 1
    IN IF PoolFull(worktrees) /\ PoolFull(swept)
       THEN /\ worktrees' = swept
            /\ disk' = sweptDisk
            /\ wtClock' = wtClock
            /\ wwt' = wwt
            /\ werr' = [werr EXCEPT ![w] = "POOL_EXHAUSTED"]
       ELSE IF made /\ id \in WtIds
       THEN /\ worktrees' = [swept EXCEPT ![id] = NewWorktree(wreq[w].Path)]
            /\ disk' = sweptDisk \cup {id}
            /\ wtClock' = id
            /\ wwt' = [wwt EXCEPT ![w] = id]
            /\ werr' = werr
       ELSE /\ worktrees' = swept
            /\ disk' = IF orphan /\ id \in WtIds THEN sweptDisk \cup {id} ELSE sweptDisk
            /\ wtClock' = IF id \in WtIds THEN id ELSE wtClock
            /\ wwt' = wwt
            /\ werr' = [werr EXCEPT ![w] = "WORKTREE_CREATE_FAILED"]

\* executeClaudeCodeTask: the CreateWorktree call and its error return
Create(w) ==
    /\ wpc[w] = "create"
    /\ \E failed \in SUBSET ExpiredIdle, made \in BOOLEAN, orphan \in BOOLEAN :
         /\ ~PoolFull(worktrees) => failed = {}
         /\ made => ~orphan
         /\ CreateWorktree(w, failed, made, orphan)
    /\ wpc' = [wpc EXCEPT ![w] = IF werr'[w] = "" THEN "record" ELSE "final"]
    /\ UNCHANGED << cfgVars, http, reader, panicked, multiTransport, stdio, rpc, returned, nano, tmVarsNoObjs, objs, ghostVars, wreq, wst,
                    currentTask, wctxDone, wmStarted, wmDone >>

\* executeClaudeCodeTask: status.WorktreeID = worktree.ID, progress 0.6
Record(w) ==
    /\ wpc[w] = "record"
    /\ objs' = [objs EXCEPT ![wst[w]].WorktreeID = wwt[w], ![wst[w]].Progress = 6]
    /\ wpc' = [wpc EXCEPT ![w] = "exec"]
    /\ UNCHANGED << cfgVars, http, reader, panicked, multiTransport, stdio, rpc, returned, nano, tmVarsNoObjs, ghostVars, wreq, wst, currentTask,
                    wctxDone, werr, wwt, wmVars >>

\* executeClaudeCodeTask: StartClaudeCode returns; on an error the worktree is
\* deleted (DeleteWorktree, whose own error is dropped; rmOk: os.RemoveAll succeeds)
Exec(w, ok, rmOk) ==
    /\ wpc[w] = "exec"
    /\ IF ok
       THEN /\ wpc' = [wpc EXCEPT ![w] = "progress"]
            /\ UNCHANGED << werr, worktrees, disk >>
       ELSE /\ wpc' = [wpc EXCEPT ![w] = "final"]
            /\ werr' = [werr EXCEPT ![w] = "CLAUDE_CODE_FAILED"]
            /\ \E gitOk \in BOOLEAN :
                 /\ worktrees' = DeleteWorktreeResult(worktrees, disk, wwt[w], gitOk, rmOk).table
                 /\ disk' = DeleteWorktreeResult(worktrees, disk, wwt[w], gitOk, rmOk).disk
    /\ UNCHANGED << cfgVars, http, reader, panicked, multiTransport, stdio, rpc, returned, nano, tmVarsNoObjs, objs, ghostVars, wreq, wst,
                    currentTask, wctxDone, wwt, wmStarted, wmDone, wtClock >>

\* executeClaudeCodeTask: progress 0.9 and the result
Progress9(w) ==
    /\ wpc[w] = "progress"
    /\ objs' = [objs EXCEPT ![wst[w]].Progress = 9, ![wst[w]].Result = wwt[w]]
    /\ wpc' = [wpc EXCEPT ![w] = "final"]
    /\ UNCHANGED << cfgVars, http, reader, panicked, multiTransport, stdio, rpc, returned, nano, tmVarsNoObjs, ghostVars, wreq, wst, currentTask,
                    wctxDone, werr, wwt, wmVars >>

\* the final status executeTask writes
FinalStatusDropsError(st, err) ==
    [st EXCEPT !.Status = "completed", !.Progress = 10, !.EndTime = TimeNow]
FinalStatus(st, err) ==
    IF err # ""
    THEN [st EXCEPT !.Status = "failed", !.Error = err, !.EndTime = TimeNow]
    ELSE [st EXCEPT !.Status = "completed", !.Progress = 10, !.EndTime = TimeNow]

\* executeTask, last critical section
Final(w) ==
    /\ wpc[w] = "final"
    /\ objs' = [objs EXCEPT ![wst[w]] = FinalStatus(objs[wst[w]], werr[w])]
    /\ wpc' = [wpc EXCEPT ![w] = "clear"]
    /\ UNCHANGED << cfgVars, http, reader, panicked, multiTransport, stdio, rpc, returned, nano, tmVarsNoObjs, ghostVars, wreq, wst, currentTask,
                    wctxDone, werr, wwt, wmVars >>

\* executeTask: w.currentTask = nil, and back to run's select
Clear(w) ==
    /\ wpc[w] = "clear"
    /\ currentTask' = [currentTask EXCEPT ![w] = 0]
    /\ wpc' = [wpc EXCEPT ![w] = "idle"]
    /\ wreq' = [wreq EXCEPT ![w] = NoReq]
    /\ wst' = [wst EXCEPT ![w] = 0]
    /\ werr' = [werr EXCEPT ![w] = ""]
    /\ wwt' = [wwt EXCEPT ![w] = 0]
    /\ objs' = Collect(objs, tasks, wst', submitting, returned, reader.ref)
    /\ UNCHANGED << cfgVars, http, reader, panicked, multiTransport, stdio, rpc, returned, nano, tmVarsNoObjs, ghostVars, wctxDone, wmVars >>

\* A panic raised inside executeClaudeCodeTask (by the path converter, the
\* worktree manager or the Claude Code launcher).  Neither run nor executeTask
\* nor any caller recovers, so the Go runtime ends the process: every
\* goroutine is gone and the records stay as they were.
WorkerPanic(w) ==
    /\ panicked = 0
    /\ wpc[w] \in {"validate", "convert", "create", "record", "exec", "progress"}
    /\ panicked' = w
    /\ wpc' = [v \in Workers |-> IF wpc[v] = "none" THEN "none" ELSE "exited"]
    /\ UNCHANGED << cfgVars, http, reader, multiTransport, stdio, rpc, returned, nano, tmStarted, tmDone, tmStopErr, objs, tasks,
                    taskQueue, submitting, cancelling, ghostVars, wreq, wst, currentTask,
                    wctxDone, werr, wwt, wmVars >>

WorkerStep(w) ==
    \/ Dequeue(w)
    \/ WorkerExit(w)
    \/ Begin(w)
    \/ SetCurrent(w)
    \/ Validate(w)
    \/ Convert(w)
    \/ Create(w)
    \/ Record(w)
    \/ \E ok \in BOOLEAN, rmOk \in BOOLEAN : Exec(w, ok, rmOk)
    \/ Progress9(w)
    \/ Final(w)
    \/ Clear(w)

(* -------------------------- specifications --------------------------- *)
\* the requests of a scenario whose callers give every task an ID of its own
OwnId(r) == r.ID = Len(objs) + 1

\* The task manager under submissions and cancellations: one worker, a queue
\* of one, an empty storage directory, no clock.

Init ==
    /\ Configured(1, 1, MaxNewWt, {})
    /\ InitState

Next ==
    \/ WMStart
    \/ TMStart
    \/ \E req \in { r \in Requests : r.ID < MaxTaskId }, cd \in BOOLEAN :
         SubmitRegister(req, cd) /\ Len(objs) < MaxSubmits - 1
    \/ \E c \in submitting : SubmitEnqueue(c)
    \/ \E id \in TaskIds : CancelMark(id)
    \/ \E c \in cancelling : CancelNotify(c)
    \/ \E w \in WorkerIds : WorkerStep(w)

Spec == Init /\ [][Next]_vars

\* Back-pressure: one worker, a queue of one, MaxSubmits submissions of runnable
\* tasks with IDs of their own, each with a live or an already cancelled caller
\* context, until the manager is stopped.
RunnableRequests ==
    { r \in Requests : r.Type = "claude_code" /\ r.Path = "winOk" /\ OwnId(r) }

NextQueue ==
    \/ WMStart
    \/ TMStart
    \/ TMStop
    \/ \E req \in RunnableRequests, cd \in BOOLEAN : SubmitRegister(req, cd)
    \/ \E c \in submitting : SubmitEnqueue(c)
    \/ \E w \in WorkerIds : WorkerStep(w)

SpecQueue == Init /\ [][NextQueue]_vars

\* The scenario "queue capacity 2, one worker, three tasks submitted
\* back-to-back": one caller, each call made after the previous one returned.
InitC6 ==
    /\ Configured(1, 2, MaxNewWt, {})
    /\ InitState

NextC6 ==
    \/ WMStart
    \/ TMStart
    \/ TMStop
    \/ \E req \in RunnableRequests :
         SubmitRegister(req, FALSE) /\ submitting = {}
    \/ \E c \in submitting : SubmitEnqueue(c)
    \/ \E w \in WorkerIds : WorkerStep(w)

SpecC6 == InitC6 /\ [][NextC6]_vars

\* The worktree pool: MaxWorkers workers create worktrees concurrently, the
\* storage directory holds any of the old directories, the clock ticks, the
\* sweeper and the REST handlers of /worktrees/{id} run.
InitPool ==
    /\ \E nm \in 1..MaxNewWt, dirs \in SUBSET (1..MaxOldDirs) :
         Configured(MaxWorkers, 2, nm, dirs)
    /\ InitState

NextPool ==
    \/ Tick
    \/ WMStart
    \/ TMStart
    \/ TMStop
    \/ \E req \in RunnableRequests :
         SubmitRegister(req, FALSE) /\ Len(objs) < MaxSubmits - 1
    \/ \E c \in submitting : SubmitEnqueue(c)
    \/ CleanupWorktrees
    \/ \E id \in WtIds, rmOk \in BOOLEAN : DeleteWorktree(id, rmOk)
    \/ \E id \in WtIds : GetWorktree(id)
    \/ \E w \in WorkerIds : WorkerStep(w)

SpecPool == InitPool /\ [][NextPool]_vars

\* Submissions and cancellations of tasks that each have an ID of their own.
OwnIdRequests == { r \in Requests : r.Path = "winOk" /\ OwnId(r) }

NextOwnIds ==
    \/ WMStart
    \/ TMStart
    \/ \E req \in OwnIdRequests :
         SubmitRegister(req, FALSE) /\ Len(objs) < MaxSubmits - 1
    \/ \E c \in submitting : SubmitEnqueue(c)
    \/ \E id \in TaskIds : CancelMark(id)
    \/ \E c \in cancelling : CancelNotify(c)
    \/ \E w \in WorkerIds : WorkerStep(w)

SpecOwnIds == Init /\ [][NextOwnIds]_vars

\* Execution stages: tasks with IDs of their own, of every type and with every
\* kind of project path, so that each stage of the execution can fail.

NextStages ==
    \/ WMStart
    \/ TMStart
    \/ \E req \in { r \in [ID : TaskIds, Type : TaskTypes, Path : PathKinds] : OwnId(r) } :
         SubmitRegister(req, FALSE) /\ Len(objs) < MaxSubmits - 1
    \/ \E c \in submitting : SubmitEnqueue(c)
    \/ \E id \in TaskIds : CancelMark(id)
    \/ \E c \in cancelling : CancelNotify(c)
    \/ \E w \in WorkerIds : WorkerStep(w)

SpecStages == Init /\ [][NextStages]_vars

\* The reaper: as SpecOwnIds, with the clock running and the task cleaner
\* ticking at any moment.
NextReaper ==
    \/ NextOwnIds
    \/ Tick
    \/ CleanupCompletedTasks

SpecReaper == Init /\ [][NextReaper]_vars

\* The dispatcher as a function of the decoded request and of what the
\* handlers return: requests with and without an id, the methods of the server
\* and others, params that parse or not.

NextDispatch ==
    \E id \in {0} \cup RequestIds,
       method \in {"initialize", "tools/list", "tools/call", "resources/list", ""},
       paramsOk \in BOOLEAN, v \in Versions, name \in CallNames, argMissing \in BOOLEAN,
       tmErr \in {"", "TASK_NOT_FOUND", "QUEUE_FULL"} :
        RPCDispatch(id, method, paramsOk, v, name, argMissing, tmErr)

SpecDispatch == Init /\ [][NextDispatch]_vars

\* The middleware chain as a function of the configuration and the request:
\* paths with and without the health path, POST and OPTIONS, allow-lists with
\* the wildcard, an address and CIDR entries, a forwarded address or none,
\* every Authorization header and token file.

NextHttp ==
    \E cfg \in [enabled : BOOLEAN,
                allowed : {{}, {"*"}, {"10.0.0.1"}, {"10.0.0.0/24"}, {"10.0.0.0/33", "10.0.0.1"}},
                method : {"token", "none"}, file : TokenFiles],
       req \in [method : {"POST", "OPTIONS"}, path : {"/mcp", "/tasks", HealthPath},
                xff : {"", "10.0.0.1", "8.8.8.8"}, remote : {"10.0.0.2"}, auth : AuthHeaders] :
        HTTPRequest(cfg, req)

SpecHttp == Init /\ [][NextHttp]_vars

\* Readers: as SpecOwnIds, with GetTaskStatus and GetWorktree called at any
\* moment and their accesses recorded.
InitLocks ==
    /\ cfgWorkers = 1
    /\ cfgQueueMax = 1
    /\ cfgMaxWt = MaxNewWt
    /\ disk = {}
    /\ callerKeeps = FALSE
    /\ stdio = NewStdioTransport(<< >>)
    /\ multiTransport = NewMultiTransport(<< >>)
    /\ reader = [NoReader EXCEPT !.pc = "idle"]
    /\ InitState

NextLocks ==
    \/ NextOwnIds
    \/ \E id \in TaskIds : GTSLookup(id)
    \/ \E k \in 1..(Len(FieldOrder) - 1) : GTSCopyFirst(k)
    \/ GTSCopyRest
    \/ \E id \in WtIds : GetWorktree(id)

SpecLocks == InitLocks /\ [][NextLocks]_vars

\* Faults: as SpecOwnIds, and the execution of a task may panic; nothing
\* happens in a process the runtime has ended.
NextPanic ==
    \/ panicked = 0 /\ NextOwnIds
    \/ \E w \in WorkerIds : WorkerPanic(w)

SpecPanic == Init /\ [][NextPanic]_vars

\* Progress: every call in progress returns and every worker goroutine is
\* scheduled (the executor's run is bounded, so Exec is taken as well).
Fairness ==
    /\ WF_vars(\E c \in submitting : SubmitEnqueue(c))
    /\ WF_vars(\E c \in cancelling : CancelNotify(c))
    /\ \A w \in WorkerIds : WF_vars(WorkerStep(w))

LiveSpec == Init /\ [][NextOwnIds]_vars /\ Fairness

\* Returned statuses: one worker, tasks with IDs of their own, and a caller of
\* SubmitTask that keeps the status it was handed while the task is executed or
\* cancelled.
InitCopy ==
    /\ cfgWorkers = 1
    /\ cfgQueueMax = 1
    /\ cfgMaxWt = MaxNewWt
    /\ disk = {}
    /\ callerKeeps = TRUE
    /\ stdio = NewStdioTransport(<< >>)
    /\ multiTransport = NewMultiTransport(<< >>)
    /\ reader = NoReader
    /\ InitState

SpecCopy == InitCopy /\ [][NextOwnIds]_vars

\* The JSON-RPC endpoint: a queue of one, initialize and tools/call requests of
\* every kind, answered while the submitted tasks wait in the queue;
\* execute_claude_code submits a task without an ID.

InitRPC ==
    /\ Configured(1, 1, MaxNewWt, {})
    /\ InitState

NextRPC ==
    \/ WMStart
    \/ TMStart
    \/ \E paramsOk \in BOOLEAN, v \in Versions : RPCInitialize(paramsOk, v)
    \/ RPCToolsList
    \/ \E paramsOk \in BOOLEAN, name \in CallNames, arg \in {0} \cup TaskIds :
         ToolsCallReadOnly(paramsOk, name, arg)
    \/ \E req \in { r \in Requests : r.ID = 0 /\ r.Type = "claude_code" }, cd \in BOOLEAN :
         SubmitRegister(req, cd) /\ Len(objs) < MaxSubmits - 1
    \/ \E c \in submitting : SubmitEnqueueFrom(c, TRUE)
    \/ \E id \in TaskIds : CancelMarkFrom(id, TRUE)
    \/ \E c \in cancelling : CancelNotify(c)

SpecRPC == InitRPC /\ [][NextRPC]_vars

\* The stdio channel: up to MaxLines lines of every kind on the reader, the
\* loop started and stopped at any moment.

InitStdio ==
    /\ cfgWorkers = 1
    /\ cfgQueueMax = 1
    /\ cfgMaxWt = MaxNewWt
    /\ disk = {}
    /\ callerKeeps = FALSE
    /\ stdio \in { NewStdioTransport(lines) : lines \in (UNION { [1..n -> StdioLines] : n \in 0..MaxLines }) }
    /\ multiTransport = NewMultiTransport(<< >>)
    /\ reader = NoReader
    /\ InitState

NextStdio ==
    \/ StdioStart
    \/ StdioStop
    \/ StdioSelect
    \/ \E writeOk \in BOOLEAN : StdioScan(writeOk)

SpecStdio == InitStdio /\ [][NextStdio]_vars

\* The multiplexer: up to MaxTransports channels whose Start and Stop fail or
\* not, Start and Stop each called once, in either order.

InitMulti ==
    /\ cfgWorkers = 1
    /\ cfgQueueMax = 1
    /\ cfgMaxWt = MaxNewWt
    /\ disk = {}
    /\ callerKeeps = FALSE
    /\ stdio = NewStdioTransport(<< >>)
    /\ multiTransport \in { NewMultiTransport(ts) : ts \in (UNION { [1..n -> Transports] : n \in 0..MaxTransports }) }
    /\ reader = NoReader
    /\ InitState

NextMulti ==
    \/ MTStart
    \/ MTStop

SpecMulti == InitMulti /\ [][NextMulti]_vars

\* Shutdown: two workers, tasks with IDs of their own, Stop called
\* at any moment and returning when the wait is over or the caller's deadline
\* passes.
InitStop ==
    /\ Configured(MaxWorkers, 1, MaxNewWt, {})
    /\ InitState

NextStop ==
    \/ WMStart
    \/ TMStart
    \/ TMStop
    \/ \E deadline \in BOOLEAN : TMStopReturn(deadline)
    \/ \E req \in OwnIdRequests :
         SubmitRegister(req, FALSE) /\ Len(objs) < MaxSubmits - 1
    \/ \E c \in submitting : SubmitEnqueue(c)
    \/ \E id \in TaskIds : CancelMark(id)
    \/ \E c \in cancelling : CancelNotify(c)
    \/ \E w \in WorkerIds : WorkerStep(w)

FairnessStop ==
    /\ Fairness
    /\ WF_vars(\E deadline \in BOOLEAN : TMStopReturn(deadline))

SpecStop == InitStop /\ [][NextStop]_vars /\ FairnessStop

(* ------------------------------ claims ------------------------------- *)
\* the status moves the life cycle pending -> running -> terminal allows for one ID
\* between two successive states ("none": the table has no entry for the ID)
LifecycleStep(a, b) ==
    \/ a = b
    \/ a = "none" /\ b = "pending"
    \/ a = "pending" /\ b \in {"running", "cancelled", "none"}
    \/ a = "running" /\ b \in TerminalStatuses
    \/ a \in TerminalStatuses /\ b = "none"

\* C1: the status of every task only moves pending -> running -> terminal or
\* pending -> cancelled; a terminal status never changes again (in particular
\* a cancelled task does not become failed or completed) and no task returns
\* to pending.
C1_StatusLifecycle ==
    [][\A id \in TaskIds : LifecycleStep(StatusOf(id), StatusOf(id)')]_vars

\* C2: under fair scheduling every task whose SubmitTask returned success
\* eventually has a terminal status.
C2_AcceptedTerminates ==
    \A id \in TaskIds : (id \in accepted) ~> (StatusOf(id) \in TerminalStatuses)

\* the worker is past executeTask's cancellation check with a request of this ID
Executing(w, id) ==
    wreq[w].ID = id /\ wpc[w] \notin {"none", "idle", "begin", "exited"}

\* C3: a task cancelled while pending never becomes running, and the worker
\* that dequeues its request skips the execution.
C3_PendingCancelNeverRuns ==
    \A id \in pendCancelled :
        /\ StatusOf(id) # "running"
        /\ \A w \in Workers : ~Executing(w, id)

\* C4: between Start and Stop every configured worker stays alive with its
\* context intact, however many tasks were cancelled.
C4_WorkersStayAlive ==
    Serving => \A w \in Workers : ~wctxDone[w] /\ wpc[w] # "exited"

\* the SubmitTask call c returns in this step
SubmitReturns(c) == c \in submitting /\ c \notin submitting'

C6_ThirdSubmission ==
    [][\A c \in submitting :
         (SubmitReturns(c) /\ c.obj = 3) =>
            /\ (Len(taskQueue) = 2 => lastSubmit' = "QUEUE_FULL" /\ taskQueue' = taskQueue)
            /\ (Len(taskQueue) < 2 => lastSubmit' = "ok")]_vars

\* the third submission was rejected: both earlier requests are still queued
C6_Witness ==
    /\ Len(objs) = 3
    /\ submitting = {}
    /\ lastSubmit = "QUEUE_FULL"
    /\ Len(taskQueue) = 2

\* C6 as stated: the third submission fails with QueueFull in every interleaving
C6_ThirdAlwaysRejected ==
    [][\A c \in submitting :
         (SubmitReturns(c) /\ c.obj = 3) => lastSubmit' = "QUEUE_FULL"]_vars

\* C7: GetTaskStatus keeps answering for every ID whose SubmitTask returned
\* success, until the reaper deletes the task.
C7_AcceptedStaysVisible ==
    \A id \in accepted : GetTaskStatus(id).err # "TASK_NOT_FOUND"

\* C8: for every task in the table, EndTime is set exactly when the status is
\* terminal.
C8_EndTimeIffTerminal ==
    \A id \in TaskIds :
        Present(id) =>
            ((objs[tasks[id]].EndTime # NoTime) <=> (objs[tasks[id]].Status \in TerminalStatuses))

\* C9: the worktree table never holds more than cfg.MaxWorktrees entries.
C9_PoolBounded == Cardinality(LiveWt) <= cfgMaxWt

\* worker w's CreateWorktree call returns in this step
CreateReturns(w) == wpc[w] = "create" /\ wpc'[w] # "create"

EvictionStep == CleanupWorktrees \/ \E w \in Workers : Create(w)

\* the entry is idle and was last used more than the TTL ago
IdlePastTTL(i) ==
    /\ worktrees[i].Status = "idle"
    /\ worktrees[i].LastUsed.set
    /\ worktrees[i].LastUsed.age > IdleTTL

\* C11: an eviction sweep removes only entries that are idle and were last
\* used more than the TTL ago (so never an active entry), and leaves the
\* entries it keeps as they were.
C11_EvictsOnlyIdlePastTTL ==
    [][EvictionStep =>
         /\ \A i \in LiveWt \ LiveWt' : IdlePastTTL(i)
         /\ \A i \in LiveWt \cap LiveWt' : worktrees'[i] = worktrees[i]]_vars

\* the sweeper can run on a table that holds an idle entry past the TTL next
\* to an active entry that is as old
C11_Witness ==
    /\ wmStarted /\ ~wmDone
    /\ \E i \in LiveWt : IdlePastTTL(i)
    /\ \E i \in LiveWt : worktrees[i].Status = "active" /\ worktrees[i].LastUsed.age > IdleTTL

\* a worker's execution of a task still holds the worktree
ReferencedByTask(i) == \E w \in Workers : wwt[w] = i /\ wpc[w] # "idle"

\* C12: a worktree is active only while the task it was created for is being
\* executed; once that task is terminal and the worker has let go of it the
\* worktree is idle.
C12_IdleOnceUnreferenced ==
    \A i \in LiveWt : worktrees[i].Status = "active" => ReferencedByTask(i)

\* C13: when a task that has a worktree recorded is failed, the worktree
\* table no longer holds that worktree.
C13_FailedTaskReleasedWorktree ==
    \A id \in TaskIds :
        (/\ Present(id)
         /\ objs[tasks[id]].Status = "failed"
         /\ objs[tasks[id]].WorktreeID # 0)
        => worktrees[objs[tasks[id]].WorktreeID].Status = "none"

C16_CancelTaskOutcome ==
    \A id \in TaskIds :
        LET r == CancelTaskResult(objs, tasks, id)
        IN /\ ~Present(id) => /\ r.err = "TASK_NOT_FOUND"
                              /\ r.objs = objs
                              /\ ~r.notify
           /\ (Present(id) /\ StatusOf(id) \in TerminalStatuses) =>
                  /\ r.err = "TASK_CANCELLED"
                  /\ r.objs = objs
                  /\ ~r.notify
           /\ (Present(id) /\ StatusOf(id) \notin TerminalStatuses) =>
                  /\ r.err = ""
                  /\ r.objs[tasks[id]].Status = "cancelled"
                  /\ r.objs[tasks[id]].EndTime = TimeNow
                  /\ \A o \in DOMAIN objs : o # tasks[id] => r.objs[o] = objs[o]
                  /\ r.notify

\* CancelTask has cancelled a pending task, which a further CancelTask refuses;
\* another task failed, and a third ID is not in the table
C16_Witness ==
    /\ \E id \in pendCancelled : /\ StatusOf(id) = "cancelled"
                                 /\ CancelTaskResult(objs, tasks, id).err = "TASK_CANCELLED"
    /\ \E id \in TaskIds : StatusOf(id) = "failed"
    /\ \E id \in TaskIds : CancelTaskResult(objs, tasks, id).err = "TASK_NOT_FOUND"

\* C17: Stop cancels every worker's context; from then on every worker exits and
\* no task stays running once they have; Stop returns success only when all of
\* them have exited, and what it returns before that is the caller's deadline
\* error; after a successful Stop no task is in status running.
NoTaskRunning == \A id \in TaskIds : StatusOf(id) # "running"
C18_ReturnedIsSnapshot ==
    returned.ref # 0 => objs[returned.ref] = returned.snap

\* C19: initialize succeeds exactly when the requested protocol version is the
\* supported one, and then returns the supported version with the server's
\* identity; for any other version string it fails with the protocol error; and
\* handling it changes neither the task table, nor the queue, nor the worktree
\* table.
C19_InitializeVersion ==
    /\ [](rpc.method = "initialize" /\ rpc.paramsOk =>
            /\ rpc.code = 0 <=> rpc.requested = MCPVersion
            /\ rpc.code = 0 => /\ rpc.ProtocolVersion = MCPVersion
                               /\ rpc.ServerInfo = ServerName
            /\ rpc.code # 0 => /\ rpc.data = "MCP_PROTOCOL_ERROR"
                               /\ rpc.ProtocolVersion = ""
                               /\ rpc.ServerInfo = "")
    /\ [][rpc' # rpc /\ rpc'.method = "initialize" =>
            UNCHANGED << objs, tasks, taskQueue, submitting, worktrees, disk >>]_vars

\* initialize with another version has been refused while a task was queued
C19_Witness ==
    /\ rpc.method = "initialize"
    /\ rpc.paramsOk
    /\ rpc.requested = "2025-03-26"
    /\ rpc.code # 0
    /\ taskQueue # << >>

\* C20: a tools/call whose params parse never gets a JSON-RPC error: a missing
\* required argument, an unknown tool name and an error of the Task Manager
\* give a result with the is-error flag set and a text, anything else a result
\* with the flag clear; a call with a missing required argument changes
\* nothing in the Task Manager or the worktree manager.
C20_ToolErrorsAreSoft ==
    /\ [](rpc.method = "tools/call" /\ rpc.paramsOk =>
            /\ rpc.code = 0
            /\ rpc.IsError <=> \/ rpc.tool \notin ToolNames
                               \/ rpc.tool # "list_tasks" /\ rpc.argMissing
                               \/ rpc.tmErr # ""
            /\ rpc.Text # "")
    /\ [][(rpc' # rpc /\ rpc'.method = "tools/call" /\ rpc'.tool # "list_tasks"
             /\ rpc'.argMissing) =>
            UNCHANGED << nano, objs, tasks, taskQueue, submitting, cancelling,
                         lastSubmit, accepted, workerVars, wmVars >>]_vars

\* execute_claude_code has been answered with the Task Manager's queue-full
\* error as a flagged result
C20_Witness ==
    /\ rpc.method = "tools/call"
    /\ rpc.tool = "execute_claude_code"
    /\ rpc.tmErr = "QUEUE_FULL"
    /\ rpc.IsError
    /\ rpc.code = 0

\* C21: the Task Manager's HealthCheck fails exactly when no worker is alive or
\* the queue length has reached its capacity; the Protocol Handler's
\* HealthCheck fails exactly when one of the two managers' does; with both
\* managers started and an empty queue HealthCheck succeeds.
C21_HealthCheckExact ==
    /\ TMHealthCheck # "" <=> (AliveWorkers = {} \/ Len(taskQueue) >= cfgQueueMax)
    /\ \A baseDirOk \in BOOLEAN :
           HandlerHealthCheck(baseDirOk) # "" <=>
               (TMHealthCheck # "" \/ WMHealthCheck(baseDirOk) # "")
    /\ (Serving /\ wmStarted /\ ~wmDone /\ taskQueue = << >>) =>
           HandlerHealthCheck(TRUE) = ""

\* C22: on the stdio channel every non-empty line read has exactly one
\* response, and the responses come in the order of the requests: the i-th
\* response answers the i-th non-empty line.
NonEmptySeen == { n \in 1..Len(stdio.seen) : stdio.seen[n].kind # "empty" }
C22_OneResponsePerLine ==
    /\ Len(stdio.out) = Cardinality(NonEmptySeen)
    /\ \A i \in 1..Len(stdio.out) :
           /\ stdio.out[i].resp.line \in NonEmptySeen
           /\ Cardinality({ n \in NonEmptySeen : n <= stdio.out[i].resp.line }) = i

\* C23: a line on the stdio channel that is no valid JSON gets one parse-error
\* response line (code -32700) whose id is null; the handler is not invoked
\* and no task or worktree state changes; the loop goes back to its select, and
\* it never returns because of such a line.
C23_ParseErrorAnswered ==
    /\ [][(Len(stdio'.seen) = Len(stdio.seen) + 1
             /\ stdio'.seen[Len(stdio'.seen)].kind = "invalid") =>
            /\ Len(stdio'.out) = Len(stdio.out) + 1
            /\ SubSeq(stdio'.out, 1, Len(stdio.out)) = stdio.out
            /\ stdio'.out[Len(stdio'.out)].wire =
                   [line |-> Len(stdio'.seen), hasId |-> TRUE, id |-> 0, code |-> -32700]
            /\ stdio'.pc = "select"
            /\ UNCHANGED << rpc, nano, objs, tasks, taskQueue, submitting, cancelling,
                            workerVars, wmVars >>]_vars
    /\ [](stdio.pc = "exited" =>
            \/ stdio.ctxDone
            \/ stdio.input = << >>
            \/ stdio.seen[Len(stdio.seen)].kind = "long")

\* C24: MultiTransport.Start calls Start on the channels in order, returns the
\* error of the first channel whose Start fails and starts no channel after
\* it; Stop calls Stop on every channel whatever the earlier ones returned, and
\* returns an error exactly when some channel's Stop failed.
C24_StartStopsAtFirstError_StopReachesAll ==
    LET ts == multiTransport.transports
        F == { i \in 1..Len(ts) : ts[i].startErr }
        first == IF F = {} THEN 0 ELSE CHOOSE i \in F : \A j \in F : i <= j
    IN  /\ multiTransport.startRet # -1 =>
            /\ multiTransport.startRet = first
            /\ multiTransport.startCalls = [i \in 1..(IF F = {} THEN Len(ts) ELSE first) |-> i]
        /\ multiTransport.stopRet # -1 =>
            /\ multiTransport.stopCalls = [i \in 1..Len(ts) |-> i]
            /\ (multiTransport.stopRet # 0) <=> (\E i \in 1..Len(ts) : ts[i].stopErr)

C24_Witness ==
    /\ Len(multiTransport.transports) = 3
    /\ multiTransport.startRet = 2
    /\ multiTransport.transports[1].stopErr
    /\ multiTransport.stopRet = 1
    /\ Len(multiTransport.stopCalls) = 3
\* C25: task IDs are assigned, unique and immutable: every accepted request
\* carries an ID, the record the table holds under an ID carries that ID, and
\* no two accepted requests that are still queued or being executed have the
\* same ID (they would share the one record the table holds under it).
C25_TaskIdsUnique ==
    LET queued == { << "queue", i >> : i \in 1..Len(taskQueue) }
        held == { << "worker", w >> : w \in { v \in Workers :
                      wpc[v] \notin {"none", "idle", "exited"} } }
        IdOf(x) == IF x[1] = "queue" THEN taskQueue[x[2]].ID ELSE wreq[x[2]].ID
    IN  /\ \A x \in queued \cup held : IdOf(x) \in TaskIds
        /\ \A id \in TaskIds : tasks[id] # 0 => objs[tasks[id]].ID = id
        /\ \A x, y \in queued \cup held : x # y => IdOf(x) # IdOf(y)
C27_PanicContained ==
    /\ [](panicked # 0 =>
            /\ wpc[panicked] # "exited"
            /\ wpc[panicked] = "idle" => objs[wst[panicked]].Status = "failed")
    /\ [][panicked = 0 /\ panicked' # 0 =>
            \A o \in 1..Len(objs) : o # wst[panicked'] => objs'[o] = objs[o]]_vars
\* C28: a task or worktree record is written only while the write lock of its
\* table is held, and read for a caller only while the read or write lock is
\* held; so a copy returned to a caller is never a record caught in the middle
\* of a mutation: it is as the record was when a lock was released, its
\* EndTime set exactly when its status is terminal.
C28_LockDiscipline ==
    /\ reader.access.kind = "write" => reader.access.lock = "W"
    /\ reader.access.kind \in {"read", "copy"} => reader.access.lock \in {"R", "W"}
    /\ reader.pc = "done" /\ reader.copy # Freed =>
           (reader.copy.EndTime.set <=>
                reader.copy.Status \in {"completed", "failed", "cancelled"})
\* C29: a task record is changed only by the worker that holds it and only
\* while it is not terminal: once its status is completed, failed or cancelled
\* none of its fields changes again; all that can happen to it is its removal.
C29_TerminalRecordsFrozen ==
    [][\A o \in 1..Len(objs) :
          objs[o] # Freed /\ objs'[o] # Freed /\ objs'[o] # objs[o] =>
              /\ objs[o].Status \notin {"completed", "failed", "cancelled"}
              /\ \E w \in WorkerIds : wst'[w] = o /\ wpc'[w] # wpc[w]]_vars
\* C30: each worker takes and executes one request at a time: the number of
\* requests being executed at once, and the number of tasks in status running,
\* is at most the configured worker count, and a worker's current task is
\* empty or the one task it is executing.
C30_AtMostOnePerWorker ==
    /\ Cardinality({ w \in WorkerIds : wpc[w] \notin {"none", "idle", "exited"} }) <= cfgWorkers
    /\ Cardinality({ id \in TaskIds : StatusOf(id) = "running" }) <= cfgWorkers
    /\ \A w \in WorkerIds :
           /\ wpc[w] \in {"none", "idle", "exited"} => currentTask[w] = 0
           /\ currentTask[w] \in {0, wst[w]}

C30_Witness ==
    /\ cfgWorkers < MaxWorkers
    /\ Cardinality({ w \in WorkerIds : wpc[w] \notin {"none", "idle", "exited"} }) = cfgWorkers
    /\ \E w \in WorkerIds : currentTask[w] # 0 /\ objs[currentTask[w]].Status = "running"
    /\ taskQueue # << >>
\* C31: a task's progress (in tenths) never decreases: it is 0 while the task
\* is pending, only takes the checkpoint values 0.1, 0.2, 0.4, 0.6, 0.9 and
\* 1.0, in that order, is 1.0 only for a completed task, and stays in [0,1].
C31_ProgressMonotone ==
    /\ [](\A o \in 1..Len(objs) : objs[o] # Freed =>
            /\ objs[o].Progress \in {0, 1, 2, 4, 6, 9, 10}
            /\ objs[o].Status = "pending" => objs[o].Progress = 0
            /\ objs[o].Progress = 10 => objs[o].Status = "completed")
    /\ [][\A o \in 1..Len(objs) : objs[o] # Freed /\ objs'[o] # Freed =>
            objs'[o].Progress >= objs[o].Progress]_vars
\* C32: an error at any stage of the execution (task type, path validation,
\* path conversion, worktree creation, launch) ends the execution there: the
\* worker goes straight to its final section, which records status failed and
\* the error, a non-empty string, on the task; the submitter, whose SubmitTask
\* call returned success before, is handed nothing.
C32_ErrorsRecordedOnTask ==
    /\ [](\A w \in WorkerIds :
            /\ werr[w] # "" => wpc[w] \in {"final", "clear"}
            /\ wpc[w] \notin {"none", "idle", "exited"} => wreq[w].ID \in accepted)
    /\ [][\A w \in WorkerIds :
            /\ werr'[w] # werr[w] => UNCHANGED << lastSubmit, returned, rpc, accepted >>
            /\ wpc[w] = "final" /\ wpc'[w] = "clear" /\ werr[w] # "" =>
                 /\ objs'[wst[w]].Status = "failed"
                 /\ objs'[wst[w]].Error = werr[w]
                 /\ objs'[wst[w]].Progress = objs[wst[w]].Progress
                 /\ UNCHANGED << lastSubmit, returned, rpc, accepted >>]_vars

C32_Witness ==
    /\ lastSubmit = "ok"
    /\ \E id \in accepted :
         /\ StatusOf(id) = "failed"
         /\ objs[tasks[id]].Error = "CLAUDE_CODE_FAILED"
         /\ objs[tasks[id]].Progress = 6
\* C33: the task cleaner removes exactly the tasks that are terminal with an
\* EndTime older than the retention window: no pending or running task, no
\* terminal task younger than the window, and it changes no record it keeps.
C33_ReaperDeletesOnlyOldTerminal ==
    [][tasks' # tasks /\ submitting' = submitting =>
         \A id \in TaskIds :
            LET st == objs[tasks[id]]
                old == /\ st.Status \in {"completed", "failed", "cancelled"}
                       /\ st.EndTime.set
                       /\ st.EndTime.age > Retention
            IN  tasks[id] # 0 =>
                   /\ tasks'[id] = 0 <=> old
                   /\ tasks'[id] # 0 => tasks'[id] = tasks[id] /\ objs'[tasks[id]] = st]_vars

C33_Witness ==
    /\ Len(objs) >= 2
    /\ submitting = {}
    /\ lastSubmit = "ok"
    /\ accepted = {2}
    /\ objs[1] = Freed
    /\ tasks[1] = 0
    /\ StatusOf(2) \in {"completed", "failed", "cancelled"}
    /\ objs[tasks[2]].EndTime.age <= Retention
\* C34: a worktree's last-used time is refreshed on every access: a
\* GetWorktree on a registered ID sets that entry's LastUsed to the current time
\* and changes nothing else in the table, and when a running task uses its
\* worktree (the launch of Claude Code for it succeeds) the entry, if it is
\* still registered, has the current time as its LastUsed as well.
C34_LastUsedRefreshed ==
    [][/\ \A id \in WtIds :
            /\ worktrees[id].Status # "none"
            /\ worktrees'[id].Status # "none"
            /\ worktrees'[id].LastUsed.age < worktrees[id].LastUsed.age
            => /\ worktrees' = [worktrees EXCEPT ![id].LastUsed = RFC3339(TimeNow)]
               /\ UNCHANGED << disk, wtClock, objs, tasks >>
       /\ \A w \in WorkerIds :
            /\ wpc[w] = "exec"
            /\ wpc'[w] = "progress"
            /\ worktrees'[wwt[w]].Status # "none"
            => worktrees'[wwt[w]].LastUsed = RFC3339(TimeNow)]_vars
\* C35: for every decoded JSON-RPC request the dispatcher's response carries
\* the request's id and either a result or an error, never both, never
\* neither: an unknown method gives -32601, params that do not decode give
\* -32602, an error of the protocol handler gives -32603, and initialize,
\* tools/list and tools/call give a result otherwise.
C35_OneResultOrError ==
    rpc.method # "none" =>
        /\ rpc.respId = rpc.id
        /\ rpc.hasResult <=> rpc.code = 0
        /\ rpc.code \in {0, -32601, -32602, -32603}
        /\ rpc.code = -32601 <=> rpc.method \notin {"initialize", "tools/list", "tools/call"}
        /\ rpc.code = -32602 <=> rpc.method \in {"initialize", "tools/call"} /\ ~rpc.paramsOk
        /\ rpc.code = -32603 <=>
               rpc.method = "initialize" /\ rpc.paramsOk /\ rpc.requested # MCPVersion

C35_Witness ==
    /\ rpc.id = 2
    /\ rpc.method = "tools/call"
    /\ rpc.tool = "get_task_status"
    /\ rpc.tmErr = "TASK_NOT_FOUND"
    /\ rpc.hasResult
    /\ rpc.IsError

C37_FailedSubmitChangesNothing ==
    [][\A c \in submitting :
          (SubmitReturns(c) /\ lastSubmit' # "ok") =>
              /\ taskQueue' = taskQueue
              /\ \A id \in TaskIds : tasks'[id] # c.obj
              /\ \A id \in TaskIds :
                    (tasks[id] # 0 /\ tasks[id] # c.obj) => tasks'[id] = tasks[id]
              /\ \A i \in DOMAIN taskQueue :
                    tasks[taskQueue[i].ID] # 0 => tasks'[taskQueue[i].ID] # 0]_vars

\* C38: every task ID is executed at most once and gets at most one workspace:
\* no two workers execute requests with one ID at a time, no two records of
\* one ID are running, and a worker that has just allocated a workspace finds
\* none recorded yet on the record of its task.
C38_ExecutedAtMostOnce ==
    /\ \A w1, w2 \in Workers :
          (w1 # w2 /\ wst[w1] # 0 /\ wst[w2] # 0) => wreq[w1].ID # wreq[w2].ID
    /\ \A o1, o2 \in DOMAIN objs :
          (o1 # o2 /\ objs[o1].Status = "running" /\ objs[o2].Status = "running")
             => objs[o1].ID # objs[o2].ID
    /\ \A w \in Workers :
          wpc[w] = "record" => objs[wst[w]].WorktreeID = 0

\* C39: while a worker is launching or has launched Claude Code for a task
\* whose record is running and carries a workspace ID, that workspace is in
\* the workspace table with status active.
C39_RunningTaskKeepsWorkspace ==
    \A w \in Workers :
        (/\ wpc[w] \in {"exec", "progress"}
         /\ objs[wst[w]].Status = "running"
         /\ objs[wst[w]].WorktreeID # 0)
            => worktrees[objs[wst[w]].WorktreeID].Status = "active"

\* C40: the fields of every task in the table agree with its status: a
\* completed task has progress 1.0, no error, a result and a workspace ID; a
\* failed task has an error and progress below 1.0; a pending task has
\* progress 0 and no workspace ID.
C40_FieldsAgreeWithStatus ==
    \A id \in TaskIds :
        Present(id) =>
            LET st == objs[tasks[id]] IN
            /\ st.Status = "completed" =>
                  st.Progress = 10 /\ st.Error = "" /\ st.Result # 0 /\ st.WorktreeID # 0
            /\ st.Status = "failed" => st.Error # "" /\ st.Progress < 10
            /\ st.Status = "pending" => st.Progress = 0 /\ st.WorktreeID = 0

====
